---- MODULE Spec2Model ----
(***************************************************************************)
(* The distinction engine (engine/distinction.py): a content-addressed     *)
(* graph store.  DistinctionEngine owns a dict id -> Distinction and a set *)
(* of id pairs; synthesize(a, b) is its one mutating operation and         *)
(* get_state_snapshot() its one read.                                      *)
(*                                                                         *)
(* Ids are Python strings and are modelled as TLA+ strings: "0" and "1"    *)
(* for the primordial pair, 64-character lowercase hex digests for every   *)
(* synthesized distinction.  The digests are the real SHA-256 values of    *)
(* the canonical strings, so the string order between ids that             *)
(* _add_relationship and synthesize branch on is the one the program sees. *)
(***************************************************************************)
EXTENDS Integers, FiniteSets, Sequences, TLC

\* Bounds: synthesize stops creating once the dict holds this many entries.
MaxEntities == 5

\* The same cap for the runs in which callers also pass distinctions that
\* the engine never returned.
MaxEntitiesOpen == 3

\* The cap on the dict under the local evolution of tests/test_time.py.
MaxEntitiesLocal == 5

\* The cap on the dict when callers pass distinctions they made themselves
\* with ":" in the id.
MaxEntitiesColon == 3

\* The number of threads calling synthesize on one engine, one call each,
\* and the cap on the dict for those runs.
MaxThreads == 2
MaxEntitiesThreads == 3

VARIABLES
    all_distinctions,   \* self.all_distinctions : Dict[str, Distinction]
    relationships,      \* self.relationships    : Set[Tuple[str, str]]
    op,                 \* the call that produced this state
    arg_a,              \* its first argument  (None when it has none)
    arg_b,              \* its second argument (None when it has none)
    ret,                \* the Distinction it returned (None for the others)
    pre,                \* the engine's two collections as that call found them
    repeated,           \* the call before it was the same call, same arguments
    snapshot,           \* the tuple the last get_state_snapshot() returned
    threads,            \* per thread: where it is in synthesize, and its locals
    thread_registered,  \* every (key, value) a thread has stored in the dict
    thread_related,     \* every pair a thread has added to the relationship set
    minds,              \* the LinguisticMind of each language, its engine inside
    pondered            \* per language: what its ponder calls returned, in order

call_vars == <<op, arg_a, arg_b, ret, pre, repeated>>

thread_vars == <<threads, thread_registered, thread_related>>

mind_vars == <<minds, pondered>>

vars == <<all_distinctions, relationships, op, arg_a, arg_b, ret, pre,
          repeated, snapshot, threads, thread_registered, thread_related,
          minds, pondered>>

----------------------------------------------------------------------------
(* Values *)

\* @dataclass(frozen=True) class Distinction: id: str.  Equality is by id.
Distinction(id) == [id |-> id]

\* Python's None.
None == [none |-> TRUE]

\* Variant: the second primordial distinction gets the id of the first.
d1_same_id == Distinction("0")

\* self.d0, self.d1
d0 == Distinction("0")
d1 == Distinction("1")

\* Distinctions a caller can build itself, without the engine: Distinction
\* is a public dataclass, and synthesize takes any instance of it.
Foreign == {Distinction("2")}

\* Distinctions a caller has constructed with ids of its own choosing, ":"
\* among the characters: id is any str.
ForeignColon == {Distinction("2"), Distinction("0:1"), Distinction("1:2")}

----------------------------------------------------------------------------
(* Python str comparison: lexicographic by code point, a proper prefix is  *)
(* smaller.                                                                *)

\* ord(c) for the characters an id or a canonical string is made of.
ord ==
    ("0" :> 48) @@ ("1" :> 49) @@ ("2" :> 50) @@ ("3" :> 51) @@ ("4" :> 52)
    @@ ("5" :> 53) @@ ("6" :> 54) @@ ("7" :> 55) @@ ("8" :> 56) @@ ("9" :> 57)
    @@ (":" :> 58)
    @@ ("a" :> 97) @@ ("b" :> 98) @@ ("c" :> 99) @@ ("d" :> 100)
    @@ ("e" :> 101) @@ ("f" :> 102)

RECURSIVE StrLess(_, _)
\* s < t on str
StrLess(s, t) ==
    IF Len(t) = 0 THEN FALSE
    ELSE IF Len(s) = 0 THEN TRUE
    ELSE IF Head(s) = Head(t) THEN StrLess(Tail(s), Tail(t))
    ELSE ord[Head(s)] < ord[Head(t)]

----------------------------------------------------------------------------
(* hashlib.sha256(s.encode()).hexdigest(), on the strings synthesize can   *)
(* hash within the bounds.  Each right-hand side is the digest of the      *)
(* string on its left.                                                     *)

sha256_table ==
    ("0:0" :> "ac72368a586a18c19088393573ce03074b8e8a4d8c21add8729af1890a407e52")
    @@ ("0:1" :> "ef134f2a180ba05de91ab32d2976f51de13b68d823ea784171b1b0dafee67be4")
    @@ ("0:2" :> "9328a9dc66caf8eb870451eb1879730a4281b7693a3dcb87cb2d58d7cfb5bad3")
    @@ ("1:0" :> "a6685f3b62d57bfc4935263140bae87fcd48088975c238c1c8455fa2c716659d")
    @@ ("1:1" :> "d6b5915c46057bcb005f46f6433df65609dd3a7a57af75ac1a5a4a7c299ebffb")
    @@ ("1:2" :> "673aeeb08cfbb00b91e5e3c60b5ba31896d55b522b1be2dccb0645a59bae8775")
    @@ ("2:0" :> "e6b190f6cd6fa4b87b2a657937257a5712116f79f8a07baeeb24c25bba8aef81")
    @@ ("2:1" :> "70a37d8f972f2494837f9dba8364cbb418b203558cbe0166f69ae925bb544f2d")
    @@ ("2:2" :> "13113e084fdad32897173cbbfd37d75b63dace3524fe974909286fae455dad30")
    @@ ("01940c0b7ef856c3a1d667cb09abdf86c8e179a9a1816df1e7e18d1437139399:1" :> "d45ae358b144b029d305f863d00467c97b32aa07c00875568a65f0d465653aaf")
    @@ ("0348e7744f58143db1b267d6dbe174a408c31f9c902ca27d7f01ff815b54d6d8:1" :> "b57259f62e961b6e847f3259ed12272041aaeccf36fcd9fc39297629454badcc")
    @@ ("064abf3d4f40da5f370b7a2716b2ff80595a3f690eeb98153777cf5d62c9e2dd:1" :> "0446d032363a87b5aeaed798ac9a0fd0a089d2a99aaad306840254bb99f22dd4")
    @@ ("0:01940c0b7ef856c3a1d667cb09abdf86c8e179a9a1816df1e7e18d1437139399" :> "68c303356465fee8ed1f2b902d5fc5558c5038cdfc96828c46a2b7e06d049048")
    @@ ("0:0348e7744f58143db1b267d6dbe174a408c31f9c902ca27d7f01ff815b54d6d8" :> "ce35b8f02d9efb23ee3722ed2b8f851774e4435806fa4ba03a0c3f2f421aab6a")
    @@ ("0:064abf3d4f40da5f370b7a2716b2ff80595a3f690eeb98153777cf5d62c9e2dd" :> "d427af4bd43c21ef9fbf3bef7f5eca3914f395a1817517d8cf41eb3b3e368410")
    @@ ("0:150a4755ded6e90248190acfa3e5b252a820378b398612552c84514f91c74f6f" :> "7ce56d3a451f84ce6d3233ea76cedd69c04e3e09a3eeb2264c7d85a87f3345fe")
    @@ ("0:1dfb234fdd019492fbd21bdbf98c5f2c52dca9c95ff4bcdac310f07bbae10eb7" :> "1b258ac71940e865bc8f7cacb892dd99cb995197101cf3d754f55a5e49a7a835")
    @@ ("0:22cb0df80bda09c9b94c656110b39355888133a89c35e839822c33b962f6a50a" :> "01940c0b7ef856c3a1d667cb09abdf86c8e179a9a1816df1e7e18d1437139399")
    @@ ("0:24ca343f7909d2bdcf79c9a1c3b5acbc4939c9a00337a851a98b0335cf91de8d" :> "83e9799092fa7b373ed05b54902354c7f5582cbe2246e9f24b66e34918c92449")
    @@ ("0:2c8431f53b81163c41ebe56091a4b6a3cda382b6da40532ef1ca8c2978527cdb" :> "9460b5f47c1408a43ffb6f66a54feae9f578d609ce58f57aa49f3787634c4e95")
    @@ ("0:34523d31162cfed057b95746d5d33d19e7486be1364d7de93ebe252372534edf" :> "84b0a6dfe3e9949419674e3a4299ba550df3ad780b58ddfe9a21b05d1aacfd59")
    @@ ("0:46f8a22bbd323fde25164b6a99cfbbc75644e43aab5c1e32b8a5647d83debc27" :> "f582994df08a3e1e367c1b917227d71d9e373765c3ded84a26778c10e673dc61")
    @@ ("0:4e57b62e989d64758c44a3db3c273537153d432623f0829cc1455947c01b9289" :> "bd019f2a4dfbbce07fa07130143100a76ca0f87707c6b380abfdde8c584767db")
    @@ ("0:50c56bcebdf10c71c8da5e641ef1315b76da1472b92dac45d812f79dce0a21e1" :> "f8ea89b27039401682945596d78537582b1a5f4a554ec47394679be59e5cab13")
    @@ ("0:52bde76fa8ab4cde0c24c73860dec21e051202fe1e7525285a39d5951a335c0b" :> "736603e83ceb2a7b4f035053aaa8efad15d8914fd6a9118a9baac0d691ba2bed")
    @@ ("0:5c41e41ae4b9a6fd1b861c3ce3543556dd9dc3b313a60c49fc9fc4e5085001ce" :> "df60b39cd5475baa72cb40b28c182138c8349a836d5e46c7fec1065da8484653")
    @@ ("0:5c4eb4a3f3c3c821bbe46a6e03b052f5082728ecf5c68d1d2cb03850d3b39623" :> "137a163a8d4418888923c7f9d794a4af09bd148f4eab20fa60432eefc4641078")
    @@ ("0:5c93339ac7af580b1ed3d486e42ad58648aa91e4e0481cf8e9e0de3f713697ff" :> "9ffcdddc59498c6cd41610089981c62a9779ee227c900c4309f183f7df319cd7")
    @@ ("0:605a9e3ca7433e6dab700ebcf7b501921649f0385c3772b2a05cbe14f2c36f8f" :> "3c3900f247eadf2d89096ba751ee917aba6839aa02e8cab7c2fb823086744efc")
    @@ ("0:673aeeb08cfbb00b91e5e3c60b5ba31896d55b522b1be2dccb0645a59bae8775" :> "5c93339ac7af580b1ed3d486e42ad58648aa91e4e0481cf8e9e0de3f713697ff")
    @@ ("0:6a363886c192baf31f8401d771154194b82e2657caa09cac9d74b8e8eead6922" :> "4f4c1debbc710e3c63962a603b8b9dd6f89f51ae04238c1eb50f0a9d0006b16e")
    @@ ("0:6bab8d5b7c6f7ed1acd59161a1c7e7aab56f54e3abb072b30dbd5587afefd01e" :> "4e57b62e989d64758c44a3db3c273537153d432623f0829cc1455947c01b9289")
    @@ ("0:736603e83ceb2a7b4f035053aaa8efad15d8914fd6a9118a9baac0d691ba2bed" :> "6d7592053c652c891bb526eecc88b10eb017928ef5896f678644baabb73312a6")
    @@ ("0:754066bae413e7d3e185738d8f7476818d6f70136ee05aae3859ddc1160585b3" :> "510f566ff7e5fa845c2e8610976b796dafb0c75733a0b5c7ae6403f8a3e0c208")
    @@ ("0:7ce56d3a451f84ce6d3233ea76cedd69c04e3e09a3eeb2264c7d85a87f3345fe" :> "50c56bcebdf10c71c8da5e641ef1315b76da1472b92dac45d812f79dce0a21e1")
    @@ ("0:7d16aa5ac9ddd344d13607e1662868c1410e0b95c0b5f5e111bd235221e0115a" :> "8fbc785b2560d99c34b1cbd025fa4b91c74f9eb4bd3033d8c9d2644b13657e21")
    @@ ("0:7ea07b5bf4e8d8f571396a2d43f64b51f6c92d3b0167d06c397d4406607f86a7" :> "369e566e67b28189283c46d2e2df682bfb2c9d7af58094cf39124fb7e597ab86")
    @@ ("0:807a7eb9720c95cbcff3b9634525c33263caf552b7a416cdabea01bb3ff4e5cb" :> "6eb00c4bac3e05954766995bfda541d01ab1774bfa043e082ceeac24f1ba1c0b")
    @@ ("0:85e345b80458c623617a6dbe423d97a5da11d2cf9cfdad0020bb86a9272f12ed" :> "fdcb142c40a9c4620833151c00024d034a35d44fcbf20bbdeffcc72d535b2de4")
    @@ ("0:8e2c43a6d18439eadb3746472e3b05b0cd38e72f3eb29b610ae9fcb4192e3815" :> "f3d2bdac382c5bfbcceb5c060c96550496a8fe84370a986cd72c3eb94d8f0ed2")
    @@ ("0:8fbc785b2560d99c34b1cbd025fa4b91c74f9eb4bd3033d8c9d2644b13657e21" :> "8ac446ea57c251399c77b1563e6b29d4753ae55f1bae43ac6bd45d205f78c378")
    @@ ("0:91b238fb422790a54c4964b1acaf04ba58e913e2cfbdb4fc1ee605f03b19cee1" :> "b6f47b0b4ce6439508e06f6fd824af4b9ce3005bc9eaac0e07d7635fb32e36c0")
    @@ ("0:9328a9dc66caf8eb870451eb1879730a4281b7693a3dcb87cb2d58d7cfb5bad3" :> "85e345b80458c623617a6dbe423d97a5da11d2cf9cfdad0020bb86a9272f12ed")
    @@ ("0:a11fe48a487f50d05af9867ffef98e55709521b81b90b9e2c395debed9d49fb7" :> "9cb1ba7173c01fcabaf7c81e5d194b0a4737a50d97b0806112cf649b35b01919")
    @@ ("0:aa184ccff6f12136a2b48a6a8e881b087864363bc51f075e0c4cf526e52cd98a" :> "a4073ba7c041656ba047196aa55a33636d9f3355e3a8597745b8a72482936a66")
    @@ ("0:b0aac63f02dfc34ee8516c9ee15f78d8958a3338a33e0ac0297132f442f98c6b" :> "f23c0762874be3dbeb11b126d127fc1f741c3bf955ed6642e7e9d73bd14b648d")
    @@ ("0:bd019f2a4dfbbce07fa07130143100a76ca0f87707c6b380abfdde8c584767db" :> "3536d80a460e79115a28c2df012954284cfabb262fda7955413cfa2d3c769ad4")
    @@ ("0:bdb629a6bfb16cfe9d59ed15188bd6cddfa357604ab3a34f3c430dfe8a909adf" :> "8e2c43a6d18439eadb3746472e3b05b0cd38e72f3eb29b610ae9fcb4192e3815")
    @@ ("0:c52d3efee4568499de3f2644c731c12038fed75c9a4bc21ad219f1a84e02a4fd" :> "3e302e1609de7db56d837e4ed71e325794483d45abae2fbf042521a22543a7ce")
    @@ ("0:c630a14f3ee1e6eb668dd77cff30dbf0094c785b4b386c73b1aa77bf669aead8" :> "ee5d9300acb6082bdbd813926e23d25e05b0004b60aba9c5ebdc0dea263b24a1")
    @@ ("0:e5cb00b68087b58c577df49c18ddeadb458119545663f89d69ecb9cc536edf0d" :> "e8dfdc73bc2bd029e454b6d9ae31e9d71f69b7792a09c809439a45a164ca925d")
    @@ ("0:e901ddac6a01f4c890359c9fa59aa89e541d5a737cfa20d5d85a46fa3c0f6c58" :> "eb33e841a0d5ab9275eaa64a7ac929067607e73a46fa753aa4cf06e202e3f626")
    @@ ("0:ef134f2a180ba05de91ab32d2976f51de13b68d823ea784171b1b0dafee67be4" :> "6bab8d5b7c6f7ed1acd59161a1c7e7aab56f54e3abb072b30dbd5587afefd01e")
    @@ ("0:f06b704de1ed2c393537cedd2debd0a7e9669e033818af66563cc645b01a64ad" :> "234d77be690475ead0b8cc38cb5b6c468da29907834a61bb60f3db8098767942")
    @@ ("0:f844efda758479ba33548f3a0c08d020e1c60e9d3da10fd3b5bd8ec97784b78e" :> "4da5460b2f48114ee3d3cd9a51a874203612232229e8fefebba090520636843a")
    @@ ("150a4755ded6e90248190acfa3e5b252a820378b398612552c84514f91c74f6f:2" :> "2469d05f9cf5abbba765acc6632f9f27edd1a96d989cbf665233a93682c50b02")
    @@ ("1:150a4755ded6e90248190acfa3e5b252a820378b398612552c84514f91c74f6f" :> "52bde76fa8ab4cde0c24c73860dec21e051202fe1e7525285a39d5951a335c0b")
    @@ ("1:1dfb234fdd019492fbd21bdbf98c5f2c52dca9c95ff4bcdac310f07bbae10eb7" :> "801290b3cfcc5af88d4908706408a9575f768614a17307f99a27de6efc35b79f")
    @@ ("1:22cb0df80bda09c9b94c656110b39355888133a89c35e839822c33b962f6a50a" :> "7ea07b5bf4e8d8f571396a2d43f64b51f6c92d3b0167d06c397d4406607f86a7")
    @@ ("1:24ca343f7909d2bdcf79c9a1c3b5acbc4939c9a00337a851a98b0335cf91de8d" :> "fe4206843a77fab9cd777dcf865f8b5ab7e6c7af68e456accfa126bda51aea0b")
    @@ ("1:2c8431f53b81163c41ebe56091a4b6a3cda382b6da40532ef1ca8c2978527cdb" :> "f3c71042ee09424cc395403bc80a42998a557bb11f245959f84cc794d2a9d088")
    @@ ("1:34523d31162cfed057b95746d5d33d19e7486be1364d7de93ebe252372534edf" :> "89498fd102a52c6c1b542d087d87e565a7c982b37a2b3690ee273517f72ef3e6")
    @@ ("1:46f8a22bbd323fde25164b6a99cfbbc75644e43aab5c1e32b8a5647d83debc27" :> "5844961546d28658a3d820d1c8a6fae01285b7116cc39f3bddcab34de9aa30b3")
    @@ ("1:4e57b62e989d64758c44a3db3c273537153d432623f0829cc1455947c01b9289" :> "e5cb00b68087b58c577df49c18ddeadb458119545663f89d69ecb9cc536edf0d")
    @@ ("1:50c56bcebdf10c71c8da5e641ef1315b76da1472b92dac45d812f79dce0a21e1" :> "418e3ccde856630b2d12623ac70cab3f2841dd708a55b34228151567a1add4b3")
    @@ ("1:52bde76fa8ab4cde0c24c73860dec21e051202fe1e7525285a39d5951a335c0b" :> "807a7eb9720c95cbcff3b9634525c33263caf552b7a416cdabea01bb3ff4e5cb")
    @@ ("1:5c41e41ae4b9a6fd1b861c3ce3543556dd9dc3b313a60c49fc9fc4e5085001ce" :> "902864c499cf530cec12f2cc3023d3c955fb6e9a11b57102a2714db5dabb1136")
    @@ ("1:5c4eb4a3f3c3c821bbe46a6e03b052f5082728ecf5c68d1d2cb03850d3b39623" :> "c1605b078497c919cbf361671ac5124eeca13b8eac88e79562e6670958f21c7e")
    @@ ("1:5c93339ac7af580b1ed3d486e42ad58648aa91e4e0481cf8e9e0de3f713697ff" :> "02f958a66df1b280135678a3c3d8bd514dca597a856cc89fa2a603041c3701b6")
    @@ ("1:605a9e3ca7433e6dab700ebcf7b501921649f0385c3772b2a05cbe14f2c36f8f" :> "eb98b93e2b45414cfc851d66c72a4723ff9c5013418b40c91e63d0f98a1c7ec0")
    @@ ("1:673aeeb08cfbb00b91e5e3c60b5ba31896d55b522b1be2dccb0645a59bae8775" :> "e901ddac6a01f4c890359c9fa59aa89e541d5a737cfa20d5d85a46fa3c0f6c58")
    @@ ("1:6a363886c192baf31f8401d771154194b82e2657caa09cac9d74b8e8eead6922" :> "0732804d9b8ba78b29135a49442908088ec52324069a3ef80a1cd4796d7df222")
    @@ ("1:6bab8d5b7c6f7ed1acd59161a1c7e7aab56f54e3abb072b30dbd5587afefd01e" :> "22cb0df80bda09c9b94c656110b39355888133a89c35e839822c33b962f6a50a")
    @@ ("1:736603e83ceb2a7b4f035053aaa8efad15d8914fd6a9118a9baac0d691ba2bed" :> "7e5504c089dd5a703a2151264c925e7a8cc629a87ee50820a9bc513d341dd640")
    @@ ("1:754066bae413e7d3e185738d8f7476818d6f70136ee05aae3859ddc1160585b3" :> "4344092c9855e95b93ac908f39652dce3e1420712d2393ff066a85b3b7da13f9")
    @@ ("1:7ce56d3a451f84ce6d3233ea76cedd69c04e3e09a3eeb2264c7d85a87f3345fe" :> "c630a14f3ee1e6eb668dd77cff30dbf0094c785b4b386c73b1aa77bf669aead8")
    @@ ("1:7d16aa5ac9ddd344d13607e1662868c1410e0b95c0b5f5e111bd235221e0115a" :> "46f8a22bbd323fde25164b6a99cfbbc75644e43aab5c1e32b8a5647d83debc27")
    @@ ("1:7ea07b5bf4e8d8f571396a2d43f64b51f6c92d3b0167d06c397d4406607f86a7" :> "1c17cfae8890f307d116ebbecdcf46df323d2c60589ef5dd828c95f40f3e1210")
    @@ ("1:807a7eb9720c95cbcff3b9634525c33263caf552b7a416cdabea01bb3ff4e5cb" :> "719b2dd2cdad8e60dc61e753ee0e3b3171e80eff621e5cd516db12112900eabe")
    @@ ("1:85e345b80458c623617a6dbe423d97a5da11d2cf9cfdad0020bb86a9272f12ed" :> "e798bb5d17b35d687e537f80f4ae07ae2c46532cc34f382681754378aa8dbe14")
    @@ ("1:8e2c43a6d18439eadb3746472e3b05b0cd38e72f3eb29b610ae9fcb4192e3815" :> "957ef3ab67010b0950bf14ea577f7b4e0414250a58858abcc11d988f24ffe47d")
    @@ ("1:8fbc785b2560d99c34b1cbd025fa4b91c74f9eb4bd3033d8c9d2644b13657e21" :> "a083b81324fe4abe40e38d81f23cef722f6bff1a274f489d283e59860e941ac0")
    @@ ("1:91b238fb422790a54c4964b1acaf04ba58e913e2cfbdb4fc1ee605f03b19cee1" :> "9a864caddf1af3607cb9c61fcbb6e710db8d71417d3629648a6a8613f8951a87")
    @@ ("1:9328a9dc66caf8eb870451eb1879730a4281b7693a3dcb87cb2d58d7cfb5bad3" :> "34523d31162cfed057b95746d5d33d19e7486be1364d7de93ebe252372534edf")
    @@ ("1:a11fe48a487f50d05af9867ffef98e55709521b81b90b9e2c395debed9d49fb7" :> "3264f3616f98b156dd338865ca2907763743f81824a58ee46cf9554e660cb4a6")
    @@ ("1:aa184ccff6f12136a2b48a6a8e881b087864363bc51f075e0c4cf526e52cd98a" :> "d4cda510b4820e1d53f034d855aae0cde79aa94709869c07e55f7b2094e00e4a")
    @@ ("1:b0aac63f02dfc34ee8516c9ee15f78d8958a3338a33e0ac0297132f442f98c6b" :> "a17de905933730a7c7edcec7af444a29eb18573f715deb4c44c1b78016322408")
    @@ ("1:bd019f2a4dfbbce07fa07130143100a76ca0f87707c6b380abfdde8c584767db" :> "e4922eee21083be0fb00c48a318b31bdcfd2411ef499a239d1f60f1abf4226b8")
    @@ ("1:bdb629a6bfb16cfe9d59ed15188bd6cddfa357604ab3a34f3c430dfe8a909adf" :> "5c4eb4a3f3c3c821bbe46a6e03b052f5082728ecf5c68d1d2cb03850d3b39623")
    @@ ("1:c52d3efee4568499de3f2644c731c12038fed75c9a4bc21ad219f1a84e02a4fd" :> "72309d3f51eec9e70f2326039182aabcf037b5fb290cfe53b8fbea17514fcab6")
    @@ ("1:c630a14f3ee1e6eb668dd77cff30dbf0094c785b4b386c73b1aa77bf669aead8" :> "375846a6fe336a2029fe0ffd67798a00742d9a3c9ff8f86ec3a848639e941715")
    @@ ("1:e5cb00b68087b58c577df49c18ddeadb458119545663f89d69ecb9cc536edf0d" :> "54911f2c264b4c08ce75571ce3e9063f036038ef2b75f461a94d1ddbfe722785")
    @@ ("1:e901ddac6a01f4c890359c9fa59aa89e541d5a737cfa20d5d85a46fa3c0f6c58" :> "01d3beaf4f36de48641453e0785df899b9078bdc1dba504ebd7972568a57ecec")
    @@ ("1:ef134f2a180ba05de91ab32d2976f51de13b68d823ea784171b1b0dafee67be4" :> "150a4755ded6e90248190acfa3e5b252a820378b398612552c84514f91c74f6f")
    @@ ("1:f06b704de1ed2c393537cedd2debd0a7e9669e033818af66563cc645b01a64ad" :> "3eac54f4e3a24994c3a5b7aa83c976c909eba348c93ebc1f5beb5bccfcabab7f")
    @@ ("1:f844efda758479ba33548f3a0c08d020e1c60e9d3da10fd3b5bd8ec97784b78e" :> "4006af0de435f08120e6bcb6f1ada078060c2c005e1792dec4c03d5dd3ae97a2")
    @@ ("2:2c8431f53b81163c41ebe56091a4b6a3cda382b6da40532ef1ca8c2978527cdb" :> "318f402bba77ad82ea82d7b32c942b8b9c75c24060b806c381940c9b4d261a8c")
    @@ ("2:34523d31162cfed057b95746d5d33d19e7486be1364d7de93ebe252372534edf" :> "b222660dad43eea928158e43e86c3f8dd14f8de528874f12af8f7214b5eecfdc")
    @@ ("2:5c93339ac7af580b1ed3d486e42ad58648aa91e4e0481cf8e9e0de3f713697ff" :> "032666f7aa51e8d0cbbc9d69a216f3a96d5904f2e267921cd70624fddc41f04b")
    @@ ("2:673aeeb08cfbb00b91e5e3c60b5ba31896d55b522b1be2dccb0645a59bae8775" :> "f844efda758479ba33548f3a0c08d020e1c60e9d3da10fd3b5bd8ec97784b78e")
    @@ ("2:6bab8d5b7c6f7ed1acd59161a1c7e7aab56f54e3abb072b30dbd5587afefd01e" :> "a3d0abfafb2613e3f85c68b27e5a8af5da2047236f650536f964c48aaa8a6ea4")
    @@ ("2:85e345b80458c623617a6dbe423d97a5da11d2cf9cfdad0020bb86a9272f12ed" :> "b8e4f234dcaf5891553677278732e2c9a166f55086b30bfebedff8cc32f5c868")
    @@ ("2:9328a9dc66caf8eb870451eb1879730a4281b7693a3dcb87cb2d58d7cfb5bad3" :> "2c8431f53b81163c41ebe56091a4b6a3cda382b6da40532ef1ca8c2978527cdb")
    @@ ("2:e901ddac6a01f4c890359c9fa59aa89e541d5a737cfa20d5d85a46fa3c0f6c58" :> "bfb3f926191236c92ee2d09741a5e545939353a01e2d6f6fab868cab918ab3cd")
    @@ ("2:ef134f2a180ba05de91ab32d2976f51de13b68d823ea784171b1b0dafee67be4" :> "f06b704de1ed2c393537cedd2debd0a7e9669e033818af66563cc645b01a64ad")
    @@ ("2:f06b704de1ed2c393537cedd2debd0a7e9669e033818af66563cc645b01a64ad" :> "dd3cd76cbc50b19716a8fce6c866edc53ac0d36b99075126b37b63016b942401")
    @@ ("2:f844efda758479ba33548f3a0c08d020e1c60e9d3da10fd3b5bd8ec97784b78e" :> "d5877809dbf4af1c4f1be9c0e6aadd6067b8a1536ea9b7d23ac40b1635e741d0")
    @@ ("01940c0b7ef856c3a1d667cb09abdf86c8e179a9a1816df1e7e18d1437139399:22cb0df80bda09c9b94c656110b39355888133a89c35e839822c33b962f6a50a" :> "f878b0bbeaf40550977f278283eaecb0953cd23aec6064d345750b69c2376b34")
    @@ ("01940c0b7ef856c3a1d667cb09abdf86c8e179a9a1816df1e7e18d1437139399:6bab8d5b7c6f7ed1acd59161a1c7e7aab56f54e3abb072b30dbd5587afefd01e" :> "c72849e5e256ae7febf615294d20be51f9bfac0c1b895e5c73b5a51a2cfd9ae7")
    @@ ("01940c0b7ef856c3a1d667cb09abdf86c8e179a9a1816df1e7e18d1437139399:ef134f2a180ba05de91ab32d2976f51de13b68d823ea784171b1b0dafee67be4" :> "7a59df692c4e8a5a24c763c2d2bf7cc26062ba0b79b2bb3c16c5d5cd3c0ff172")
    @@ ("0348e7744f58143db1b267d6dbe174a408c31f9c902ca27d7f01ff815b54d6d8:150a4755ded6e90248190acfa3e5b252a820378b398612552c84514f91c74f6f" :> "6fa7fe81cb3777cf578867182a8004be4d0a840e7651a0573e28cd8dffe96276")
    @@ ("0348e7744f58143db1b267d6dbe174a408c31f9c902ca27d7f01ff815b54d6d8:52bde76fa8ab4cde0c24c73860dec21e051202fe1e7525285a39d5951a335c0b" :> "65876b418fc857c85d7351ab373038be49a7c2dd678d5c4ee5bbbd7886aab5d7")
    @@ ("0348e7744f58143db1b267d6dbe174a408c31f9c902ca27d7f01ff815b54d6d8:ef134f2a180ba05de91ab32d2976f51de13b68d823ea784171b1b0dafee67be4" :> "512a3fc21b1ae70b825320fe320513b71b822a182ecfb6b2d565c56019ce57b2")
    @@ ("064abf3d4f40da5f370b7a2716b2ff80595a3f690eeb98153777cf5d62c9e2dd:150a4755ded6e90248190acfa3e5b252a820378b398612552c84514f91c74f6f" :> "cd412df8563861116414e22fb8a3fc87cc3abd9a527bc26cf57918c48ed2e1b6")
    @@ ("064abf3d4f40da5f370b7a2716b2ff80595a3f690eeb98153777cf5d62c9e2dd:7d16aa5ac9ddd344d13607e1662868c1410e0b95c0b5f5e111bd235221e0115a" :> "e3579cf24d3938dd422dde3d8e7df74f3bcc97a9976d18611198788ccf59c8f7")
    @@ ("064abf3d4f40da5f370b7a2716b2ff80595a3f690eeb98153777cf5d62c9e2dd:ef134f2a180ba05de91ab32d2976f51de13b68d823ea784171b1b0dafee67be4" :> "138a19e0bdbe51f89f97eeed3c35a0e4678bc497727a3e80bc57ea780ddb6e9e")
    @@ ("150a4755ded6e90248190acfa3e5b252a820378b398612552c84514f91c74f6f:1dfb234fdd019492fbd21bdbf98c5f2c52dca9c95ff4bcdac310f07bbae10eb7" :> "f057163a897365b834061f28f26b94724a537a1031baca0de93c14be62f6fa8b")
    @@ ("150a4755ded6e90248190acfa3e5b252a820378b398612552c84514f91c74f6f:22cb0df80bda09c9b94c656110b39355888133a89c35e839822c33b962f6a50a" :> "e25df59b23baa5f2bdfe40ad1530cecafb8a9ada9403bfe55b95258f7c2654c9")
    @@ ("150a4755ded6e90248190acfa3e5b252a820378b398612552c84514f91c74f6f:24ca343f7909d2bdcf79c9a1c3b5acbc4939c9a00337a851a98b0335cf91de8d" :> "e0d2e738924eb277b500df203faa661bd893f6b8e4bce3d2ae1dd56e599af0b8")
    @@ ("150a4755ded6e90248190acfa3e5b252a820378b398612552c84514f91c74f6f:46f8a22bbd323fde25164b6a99cfbbc75644e43aab5c1e32b8a5647d83debc27" :> "99d3aad4d63fbbbf874ed8576c2489c3864e4ad83ed904b253cf67b6b21e4379")
    @@ ("150a4755ded6e90248190acfa3e5b252a820378b398612552c84514f91c74f6f:4e57b62e989d64758c44a3db3c273537153d432623f0829cc1455947c01b9289" :> "6b227fda427036d60f53d25d41f82e4a3199ef38c45aad6db38cbcf86d4e438f")
    @@ ("150a4755ded6e90248190acfa3e5b252a820378b398612552c84514f91c74f6f:50c56bcebdf10c71c8da5e641ef1315b76da1472b92dac45d812f79dce0a21e1" :> "c36d64fc50c5e1e81482d4b51bf66e1b23595f383814d9a0af9eb0d54fcf3468")
    @@ ("150a4755ded6e90248190acfa3e5b252a820378b398612552c84514f91c74f6f:52bde76fa8ab4cde0c24c73860dec21e051202fe1e7525285a39d5951a335c0b" :> "0348e7744f58143db1b267d6dbe174a408c31f9c902ca27d7f01ff815b54d6d8")
    @@ ("150a4755ded6e90248190acfa3e5b252a820378b398612552c84514f91c74f6f:5c41e41ae4b9a6fd1b861c3ce3543556dd9dc3b313a60c49fc9fc4e5085001ce" :> "55de82cafb7f87503139ebf4782176f06dd9b15a14d24343da2d62a958798ded")
    @@ ("150a4755ded6e90248190acfa3e5b252a820378b398612552c84514f91c74f6f:6bab8d5b7c6f7ed1acd59161a1c7e7aab56f54e3abb072b30dbd5587afefd01e" :> "1dfb234fdd019492fbd21bdbf98c5f2c52dca9c95ff4bcdac310f07bbae10eb7")
    @@ ("150a4755ded6e90248190acfa3e5b252a820378b398612552c84514f91c74f6f:736603e83ceb2a7b4f035053aaa8efad15d8914fd6a9118a9baac0d691ba2bed" :> "04803bcbdc7a241d0637e3356987edb0c1575d096e0e7ba5d1de15478afecb29")
    @@ ("150a4755ded6e90248190acfa3e5b252a820378b398612552c84514f91c74f6f:7ce56d3a451f84ce6d3233ea76cedd69c04e3e09a3eeb2264c7d85a87f3345fe" :> "5c41e41ae4b9a6fd1b861c3ce3543556dd9dc3b313a60c49fc9fc4e5085001ce")
    @@ ("150a4755ded6e90248190acfa3e5b252a820378b398612552c84514f91c74f6f:7d16aa5ac9ddd344d13607e1662868c1410e0b95c0b5f5e111bd235221e0115a" :> "064abf3d4f40da5f370b7a2716b2ff80595a3f690eeb98153777cf5d62c9e2dd")
    @@ ("150a4755ded6e90248190acfa3e5b252a820378b398612552c84514f91c74f6f:807a7eb9720c95cbcff3b9634525c33263caf552b7a416cdabea01bb3ff4e5cb" :> "9e245d3f2c94dc3e92b4878710e417f0492dceacc8ec93ab7af17b66380d3bd7")
    @@ ("150a4755ded6e90248190acfa3e5b252a820378b398612552c84514f91c74f6f:8fbc785b2560d99c34b1cbd025fa4b91c74f9eb4bd3033d8c9d2644b13657e21" :> "ef8d389e7667ed1eb25374bcef0a7e44d79e8d120ea1c86c8debd82f0e064db9")
    @@ ("150a4755ded6e90248190acfa3e5b252a820378b398612552c84514f91c74f6f:a11fe48a487f50d05af9867ffef98e55709521b81b90b9e2c395debed9d49fb7" :> "bf403eb0b45a8234f5b169de4600ccb9a3b792e5a88ae55ca48d7f476ddfd514")
    @@ ("150a4755ded6e90248190acfa3e5b252a820378b398612552c84514f91c74f6f:b0aac63f02dfc34ee8516c9ee15f78d8958a3338a33e0ac0297132f442f98c6b" :> "a54141fa3c8f43466f73d5766f3a56324be5e1f84defb4991b55e38dec43c737")
    @@ ("150a4755ded6e90248190acfa3e5b252a820378b398612552c84514f91c74f6f:bdb629a6bfb16cfe9d59ed15188bd6cddfa357604ab3a34f3c430dfe8a909adf" :> "45bde050078d3600e3363a879dd4dfca9f35754e4e7d9ae336599ba19e63bbde")
    @@ ("150a4755ded6e90248190acfa3e5b252a820378b398612552c84514f91c74f6f:c630a14f3ee1e6eb668dd77cff30dbf0094c785b4b386c73b1aa77bf669aead8" :> "6e178b16e0e1d3f842b173582afea5335a1acf44f33893378b7aac3fa8946477")
    @@ ("150a4755ded6e90248190acfa3e5b252a820378b398612552c84514f91c74f6f:ef134f2a180ba05de91ab32d2976f51de13b68d823ea784171b1b0dafee67be4" :> "7d16aa5ac9ddd344d13607e1662868c1410e0b95c0b5f5e111bd235221e0115a")
    @@ ("1dfb234fdd019492fbd21bdbf98c5f2c52dca9c95ff4bcdac310f07bbae10eb7:6bab8d5b7c6f7ed1acd59161a1c7e7aab56f54e3abb072b30dbd5587afefd01e" :> "4171171f9da17bf55e215fb8c5937f7e42f769a6eae09c6babf0b123314a5f59")
    @@ ("1dfb234fdd019492fbd21bdbf98c5f2c52dca9c95ff4bcdac310f07bbae10eb7:ef134f2a180ba05de91ab32d2976f51de13b68d823ea784171b1b0dafee67be4" :> "a155679f1a1b7cee668ed27b74cde4c38ce1af7ccd09484e1412e086ea6b81a5")
    @@ ("22cb0df80bda09c9b94c656110b39355888133a89c35e839822c33b962f6a50a:4e57b62e989d64758c44a3db3c273537153d432623f0829cc1455947c01b9289" :> "fbf38281c111a31969a8d4a2698b602a6a633dfd883c29c35a63b21e28f635dc")
    @@ ("22cb0df80bda09c9b94c656110b39355888133a89c35e839822c33b962f6a50a:605a9e3ca7433e6dab700ebcf7b501921649f0385c3772b2a05cbe14f2c36f8f" :> "23fd1959cf16b6e3eb8fc3ae6e8ac447ba7a96f03ed3dddae3084bbd9e97d311")
    @@ ("22cb0df80bda09c9b94c656110b39355888133a89c35e839822c33b962f6a50a:6bab8d5b7c6f7ed1acd59161a1c7e7aab56f54e3abb072b30dbd5587afefd01e" :> "605a9e3ca7433e6dab700ebcf7b501921649f0385c3772b2a05cbe14f2c36f8f")
    @@ ("22cb0df80bda09c9b94c656110b39355888133a89c35e839822c33b962f6a50a:7ea07b5bf4e8d8f571396a2d43f64b51f6c92d3b0167d06c397d4406607f86a7" :> "9ac85b188de93e00c6bcf59cc57f58637b2f348e3e35bd7bb1115a9f2500350e")
    @@ ("22cb0df80bda09c9b94c656110b39355888133a89c35e839822c33b962f6a50a:aa184ccff6f12136a2b48a6a8e881b087864363bc51f075e0c4cf526e52cd98a" :> "94ab12b1b397743cba19382d1e59b1b96ca6592303efe91f0925587bb17b845d")
    @@ ("22cb0df80bda09c9b94c656110b39355888133a89c35e839822c33b962f6a50a:bdb629a6bfb16cfe9d59ed15188bd6cddfa357604ab3a34f3c430dfe8a909adf" :> "5c5cc5ef5d74414ee1a7d7c23b44a9d0a176e1a997debc1282f0fd00333649d8")
    @@ ("22cb0df80bda09c9b94c656110b39355888133a89c35e839822c33b962f6a50a:ef134f2a180ba05de91ab32d2976f51de13b68d823ea784171b1b0dafee67be4" :> "aa184ccff6f12136a2b48a6a8e881b087864363bc51f075e0c4cf526e52cd98a")
    @@ ("24ca343f7909d2bdcf79c9a1c3b5acbc4939c9a00337a851a98b0335cf91de8d:7ce56d3a451f84ce6d3233ea76cedd69c04e3e09a3eeb2264c7d85a87f3345fe" :> "79ed2e343df25f8e6c7c6c06a8cb59bd169b1a2f6f72ae5b5d4fa27ec03c3899")
    @@ ("24ca343f7909d2bdcf79c9a1c3b5acbc4939c9a00337a851a98b0335cf91de8d:ef134f2a180ba05de91ab32d2976f51de13b68d823ea784171b1b0dafee67be4" :> "33bc41d8486972024225dfb2434c8c26141358ff3981b717d20465c279331c9e")
    @@ ("2c8431f53b81163c41ebe56091a4b6a3cda382b6da40532ef1ca8c2978527cdb:9328a9dc66caf8eb870451eb1879730a4281b7693a3dcb87cb2d58d7cfb5bad3" :> "8823fc8950b797d3132e3f63ec552ab0fcc1757f92d8728713b6cc851e479187")
    @@ ("34523d31162cfed057b95746d5d33d19e7486be1364d7de93ebe252372534edf:9328a9dc66caf8eb870451eb1879730a4281b7693a3dcb87cb2d58d7cfb5bad3" :> "c3f2c3f3d9fca7d06de8bbfc3ee8d83684028a30e6606d6c0863d59df42442a5")
    @@ ("46f8a22bbd323fde25164b6a99cfbbc75644e43aab5c1e32b8a5647d83debc27:7d16aa5ac9ddd344d13607e1662868c1410e0b95c0b5f5e111bd235221e0115a" :> "ea9a53211af453f06a70f76427c68eadcc7e2c362e4525c4fb77c5e53b8607ed")
    @@ ("46f8a22bbd323fde25164b6a99cfbbc75644e43aab5c1e32b8a5647d83debc27:ef134f2a180ba05de91ab32d2976f51de13b68d823ea784171b1b0dafee67be4" :> "e8b282f00a92d22f11fe0827e2455a2c56fc09605a81a563c33b501f7092449d")
    @@ ("4e57b62e989d64758c44a3db3c273537153d432623f0829cc1455947c01b9289:6a363886c192baf31f8401d771154194b82e2657caa09cac9d74b8e8eead6922" :> "c591dbad6508ff1a75603bceb8bb8a9384bede8ec31c4c12e4f1c2a8db979583")
    @@ ("4e57b62e989d64758c44a3db3c273537153d432623f0829cc1455947c01b9289:6bab8d5b7c6f7ed1acd59161a1c7e7aab56f54e3abb072b30dbd5587afefd01e" :> "6a363886c192baf31f8401d771154194b82e2657caa09cac9d74b8e8eead6922")
    @@ ("4e57b62e989d64758c44a3db3c273537153d432623f0829cc1455947c01b9289:bd019f2a4dfbbce07fa07130143100a76ca0f87707c6b380abfdde8c584767db" :> "6a1df1100058185dc14e8cd049b435c78a14315f539f4957423c620e1b486039")
    @@ ("4e57b62e989d64758c44a3db3c273537153d432623f0829cc1455947c01b9289:bdb629a6bfb16cfe9d59ed15188bd6cddfa357604ab3a34f3c430dfe8a909adf" :> "a09fdcca710f8c8a6803d6a7e22d3c3a3f84540ff3dd10796ef29d943acf8a0c")
    @@ ("4e57b62e989d64758c44a3db3c273537153d432623f0829cc1455947c01b9289:c52d3efee4568499de3f2644c731c12038fed75c9a4bc21ad219f1a84e02a4fd" :> "c2fa68d61c08ed40c9b6f59d9b657f84609f8e45c86f5ab641e7125ceb017d19")
    @@ ("4e57b62e989d64758c44a3db3c273537153d432623f0829cc1455947c01b9289:e5cb00b68087b58c577df49c18ddeadb458119545663f89d69ecb9cc536edf0d" :> "69a141bab4e81d4ae181433e70c46c92a740c41dc3b8f54786cfaecead54a9bd")
    @@ ("4e57b62e989d64758c44a3db3c273537153d432623f0829cc1455947c01b9289:ef134f2a180ba05de91ab32d2976f51de13b68d823ea784171b1b0dafee67be4" :> "c52d3efee4568499de3f2644c731c12038fed75c9a4bc21ad219f1a84e02a4fd")
    @@ ("50c56bcebdf10c71c8da5e641ef1315b76da1472b92dac45d812f79dce0a21e1:7ce56d3a451f84ce6d3233ea76cedd69c04e3e09a3eeb2264c7d85a87f3345fe" :> "970dcba99ad6da9166cb62c4f04d7cf5f521269c7f24ff402c43872d1bc49b83")
    @@ ("50c56bcebdf10c71c8da5e641ef1315b76da1472b92dac45d812f79dce0a21e1:ef134f2a180ba05de91ab32d2976f51de13b68d823ea784171b1b0dafee67be4" :> "8ba9ed6e87d33d39625ac90d00a0fd8ff18294504d1d50503f92038ec21afcc5")
    @@ ("52bde76fa8ab4cde0c24c73860dec21e051202fe1e7525285a39d5951a335c0b:6bab8d5b7c6f7ed1acd59161a1c7e7aab56f54e3abb072b30dbd5587afefd01e" :> "8a8f20088da5b3f7f0f054b4c1477bf28e5465e83c6fceca9a81f4d5dd0295fc")
    @@ ("52bde76fa8ab4cde0c24c73860dec21e051202fe1e7525285a39d5951a335c0b:736603e83ceb2a7b4f035053aaa8efad15d8914fd6a9118a9baac0d691ba2bed" :> "db48a3392345ba38fc0848cbb6ac6f68e25c780bae2848a5cf828c166436e001")
    @@ ("52bde76fa8ab4cde0c24c73860dec21e051202fe1e7525285a39d5951a335c0b:7ce56d3a451f84ce6d3233ea76cedd69c04e3e09a3eeb2264c7d85a87f3345fe" :> "3c833d1bcffb64b02163a52b24cf893c644f468967c04ae3d1dff3591636bdf2")
    @@ ("52bde76fa8ab4cde0c24c73860dec21e051202fe1e7525285a39d5951a335c0b:7d16aa5ac9ddd344d13607e1662868c1410e0b95c0b5f5e111bd235221e0115a" :> "c5a9f67ceb984c3397c1b09d6658501f917b4cca4d5310be033c5950cbef1ace")
    @@ ("52bde76fa8ab4cde0c24c73860dec21e051202fe1e7525285a39d5951a335c0b:807a7eb9720c95cbcff3b9634525c33263caf552b7a416cdabea01bb3ff4e5cb" :> "7afa67f062644b602e653c904060e624df5cbacd79828105b88dc120dd49da5f")
    @@ ("52bde76fa8ab4cde0c24c73860dec21e051202fe1e7525285a39d5951a335c0b:b0aac63f02dfc34ee8516c9ee15f78d8958a3338a33e0ac0297132f442f98c6b" :> "ee7b8fd5acf61bde8929839244e72f0e02e7df6b4b4378cf4aedc01d69b24d6c")
    @@ ("52bde76fa8ab4cde0c24c73860dec21e051202fe1e7525285a39d5951a335c0b:ef134f2a180ba05de91ab32d2976f51de13b68d823ea784171b1b0dafee67be4" :> "b0aac63f02dfc34ee8516c9ee15f78d8958a3338a33e0ac0297132f442f98c6b")
    @@ ("5c41e41ae4b9a6fd1b861c3ce3543556dd9dc3b313a60c49fc9fc4e5085001ce:7ce56d3a451f84ce6d3233ea76cedd69c04e3e09a3eeb2264c7d85a87f3345fe" :> "a107427a54ae82a52856a4416dac4d8c3f09238d6982760f283f03e2b00554bf")
    @@ ("5c41e41ae4b9a6fd1b861c3ce3543556dd9dc3b313a60c49fc9fc4e5085001ce:ef134f2a180ba05de91ab32d2976f51de13b68d823ea784171b1b0dafee67be4" :> "fdfff3cc4ed4078533cc90c0cbb2f251f53a0e21387b32f7d3cf4e3dc7149ad6")
    @@ ("5c4eb4a3f3c3c821bbe46a6e03b052f5082728ecf5c68d1d2cb03850d3b39623:6bab8d5b7c6f7ed1acd59161a1c7e7aab56f54e3abb072b30dbd5587afefd01e" :> "457e1e8cce57b3e65478cdf6019a1d18c1552b4655c76e1778b9705d8e763a48")
    @@ ("5c4eb4a3f3c3c821bbe46a6e03b052f5082728ecf5c68d1d2cb03850d3b39623:bdb629a6bfb16cfe9d59ed15188bd6cddfa357604ab3a34f3c430dfe8a909adf" :> "7c278ee63c96c9320c3dcdd9628a1ca3041ba94b6c73eb350dbda887b653b961")
    @@ ("5c4eb4a3f3c3c821bbe46a6e03b052f5082728ecf5c68d1d2cb03850d3b39623:ef134f2a180ba05de91ab32d2976f51de13b68d823ea784171b1b0dafee67be4" :> "6c3235688b74d94aff7203d0c0d2b03a629010be585607b92f2f90c88ca92a5f")
    @@ ("5c93339ac7af580b1ed3d486e42ad58648aa91e4e0481cf8e9e0de3f713697ff:673aeeb08cfbb00b91e5e3c60b5ba31896d55b522b1be2dccb0645a59bae8775" :> "94d590f0db76d6dccac1706ac4519464299220cadfbd9e75ef9d419d425f36ba")
    @@ ("605a9e3ca7433e6dab700ebcf7b501921649f0385c3772b2a05cbe14f2c36f8f:6bab8d5b7c6f7ed1acd59161a1c7e7aab56f54e3abb072b30dbd5587afefd01e" :> "a32183ad536ace108d6627061d52f09f8f31a4e131332ee27ec372ed55a72f7a")
    @@ ("605a9e3ca7433e6dab700ebcf7b501921649f0385c3772b2a05cbe14f2c36f8f:ef134f2a180ba05de91ab32d2976f51de13b68d823ea784171b1b0dafee67be4" :> "d909189a727fc50b14a4d6e0b97b92095e97b6addc7175f4f7c51b841c203d84")
    @@ ("673aeeb08cfbb00b91e5e3c60b5ba31896d55b522b1be2dccb0645a59bae8775:9328a9dc66caf8eb870451eb1879730a4281b7693a3dcb87cb2d58d7cfb5bad3" :> "aa7fbe6e27886779292f8933479296f4301d542c2d0476f0949bfa82cd91b897")
    @@ ("673aeeb08cfbb00b91e5e3c60b5ba31896d55b522b1be2dccb0645a59bae8775:e901ddac6a01f4c890359c9fa59aa89e541d5a737cfa20d5d85a46fa3c0f6c58" :> "dd77bab2652f8d9327f2ce1b42ad9b316dfabc02bf196af3bb7a2a2687877d4f")
    @@ ("673aeeb08cfbb00b91e5e3c60b5ba31896d55b522b1be2dccb0645a59bae8775:ef134f2a180ba05de91ab32d2976f51de13b68d823ea784171b1b0dafee67be4" :> "ef308885a4e533bd67ceb8ef66a5bffa59472da790d1aa4eaacd34a3f020b279")
    @@ ("673aeeb08cfbb00b91e5e3c60b5ba31896d55b522b1be2dccb0645a59bae8775:f844efda758479ba33548f3a0c08d020e1c60e9d3da10fd3b5bd8ec97784b78e" :> "60a89d816d6f4482efa0ec050cf24823cb6b76d91ac126c42c1e3062dec3ee80")
    @@ ("6a363886c192baf31f8401d771154194b82e2657caa09cac9d74b8e8eead6922:6bab8d5b7c6f7ed1acd59161a1c7e7aab56f54e3abb072b30dbd5587afefd01e" :> "c496101d100135ff7ec47aa25e82ce290c3cb2e97981a89fb119ed74724afe3a")
    @@ ("6a363886c192baf31f8401d771154194b82e2657caa09cac9d74b8e8eead6922:ef134f2a180ba05de91ab32d2976f51de13b68d823ea784171b1b0dafee67be4" :> "128e7d222aabd496324a468a2ba817ba33eaace6688c944da3f02fc209bc6adc")
    @@ ("6bab8d5b7c6f7ed1acd59161a1c7e7aab56f54e3abb072b30dbd5587afefd01e:754066bae413e7d3e185738d8f7476818d6f70136ee05aae3859ddc1160585b3" :> "31ea8453618e7a4685de4d45ac667340870aedfe8f8a89b5cd84d926438b5709")
    @@ ("6bab8d5b7c6f7ed1acd59161a1c7e7aab56f54e3abb072b30dbd5587afefd01e:7ce56d3a451f84ce6d3233ea76cedd69c04e3e09a3eeb2264c7d85a87f3345fe" :> "89dedd6fddb1d52db38a2419c17a40c789a933f1e6499301f5906150a5f47983")
    @@ ("6bab8d5b7c6f7ed1acd59161a1c7e7aab56f54e3abb072b30dbd5587afefd01e:7d16aa5ac9ddd344d13607e1662868c1410e0b95c0b5f5e111bd235221e0115a" :> "cb5ce9900ffce9b8c4be03c8573a98ca7764f3fa452b5b62baba2e5844765c14")
    @@ ("6bab8d5b7c6f7ed1acd59161a1c7e7aab56f54e3abb072b30dbd5587afefd01e:7ea07b5bf4e8d8f571396a2d43f64b51f6c92d3b0167d06c397d4406607f86a7" :> "fdca8b5b198b752369182efef970b1e12bba2daa82c7443b7cdc9b802732cc82")
    @@ ("6bab8d5b7c6f7ed1acd59161a1c7e7aab56f54e3abb072b30dbd5587afefd01e:8e2c43a6d18439eadb3746472e3b05b0cd38e72f3eb29b610ae9fcb4192e3815" :> "2a0ad17becd2bece5037e1b69746fc76d07d80a0ca57ad17a8f346626ae00edb")
    @@ ("6bab8d5b7c6f7ed1acd59161a1c7e7aab56f54e3abb072b30dbd5587afefd01e:91b238fb422790a54c4964b1acaf04ba58e913e2cfbdb4fc1ee605f03b19cee1" :> "850d34ff31d5fade87b39de5443c401b0fe70696dece85dc1b9712336426975e")
    @@ ("6bab8d5b7c6f7ed1acd59161a1c7e7aab56f54e3abb072b30dbd5587afefd01e:aa184ccff6f12136a2b48a6a8e881b087864363bc51f075e0c4cf526e52cd98a" :> "85923beaed1a3e04ce11987d7a2d98843852d2097db0de9a1b0cf322000f1c20")
    @@ ("6bab8d5b7c6f7ed1acd59161a1c7e7aab56f54e3abb072b30dbd5587afefd01e:bd019f2a4dfbbce07fa07130143100a76ca0f87707c6b380abfdde8c584767db" :> "8ab986f974fe42d54021d70b1c149e33d67502f976e4e7d94153a9161e4b329a")
    @@ ("6bab8d5b7c6f7ed1acd59161a1c7e7aab56f54e3abb072b30dbd5587afefd01e:bdb629a6bfb16cfe9d59ed15188bd6cddfa357604ab3a34f3c430dfe8a909adf" :> "754066bae413e7d3e185738d8f7476818d6f70136ee05aae3859ddc1160585b3")
    @@ ("6bab8d5b7c6f7ed1acd59161a1c7e7aab56f54e3abb072b30dbd5587afefd01e:c52d3efee4568499de3f2644c731c12038fed75c9a4bc21ad219f1a84e02a4fd" :> "e2585af091c222cf7146bf81fd55ff475b6909afc5648c1f8e093d72529cfd13")
    @@ ("6bab8d5b7c6f7ed1acd59161a1c7e7aab56f54e3abb072b30dbd5587afefd01e:e5cb00b68087b58c577df49c18ddeadb458119545663f89d69ecb9cc536edf0d" :> "682f6ff93fabadd337957e7dc78045265b82b6441155b61e482bf1b1ed61867d")
    @@ ("6bab8d5b7c6f7ed1acd59161a1c7e7aab56f54e3abb072b30dbd5587afefd01e:ef134f2a180ba05de91ab32d2976f51de13b68d823ea784171b1b0dafee67be4" :> "bdb629a6bfb16cfe9d59ed15188bd6cddfa357604ab3a34f3c430dfe8a909adf")
    @@ ("736603e83ceb2a7b4f035053aaa8efad15d8914fd6a9118a9baac0d691ba2bed:ef134f2a180ba05de91ab32d2976f51de13b68d823ea784171b1b0dafee67be4" :> "22549359db4d60d2ec816a35e31c029fa3019a474db0e7c2c2c73f58de3bfe4d")
    @@ ("754066bae413e7d3e185738d8f7476818d6f70136ee05aae3859ddc1160585b3:bdb629a6bfb16cfe9d59ed15188bd6cddfa357604ab3a34f3c430dfe8a909adf" :> "ea8dec0877bc2f90bc8a8d30604cb9ced402dd09232613cdddf4f02789c47263")
    @@ ("754066bae413e7d3e185738d8f7476818d6f70136ee05aae3859ddc1160585b3:ef134f2a180ba05de91ab32d2976f51de13b68d823ea784171b1b0dafee67be4" :> "7862c5f0b6e2f38da593618edafb7fcc69775e9595d7d40b9a390fe7d8f0d452")
    @@ ("7ce56d3a451f84ce6d3233ea76cedd69c04e3e09a3eeb2264c7d85a87f3345fe:7d16aa5ac9ddd344d13607e1662868c1410e0b95c0b5f5e111bd235221e0115a" :> "266f69ae475813c63f0e4d196c2bce8375fc238ce3c8469f083ea576588464f5")
    @@ ("7ce56d3a451f84ce6d3233ea76cedd69c04e3e09a3eeb2264c7d85a87f3345fe:c630a14f3ee1e6eb668dd77cff30dbf0094c785b4b386c73b1aa77bf669aead8" :> "4e5585b9d3737d1f15953a8f2d3d052511801a0aa5315a307cf857aa9b525baf")
    @@ ("7ce56d3a451f84ce6d3233ea76cedd69c04e3e09a3eeb2264c7d85a87f3345fe:ef134f2a180ba05de91ab32d2976f51de13b68d823ea784171b1b0dafee67be4" :> "24ca343f7909d2bdcf79c9a1c3b5acbc4939c9a00337a851a98b0335cf91de8d")
    @@ ("7d16aa5ac9ddd344d13607e1662868c1410e0b95c0b5f5e111bd235221e0115a:8fbc785b2560d99c34b1cbd025fa4b91c74f9eb4bd3033d8c9d2644b13657e21" :> "54209c3efdb37cbf68639fad50806c30bcecd97b04b5d8cbbbc39d332be09208")
    @@ ("7d16aa5ac9ddd344d13607e1662868c1410e0b95c0b5f5e111bd235221e0115a:a11fe48a487f50d05af9867ffef98e55709521b81b90b9e2c395debed9d49fb7" :> "41edecf67073f608d52d081d0bcc533dd371c391f7e063014f35f52816bdb460")
    @@ ("7d16aa5ac9ddd344d13607e1662868c1410e0b95c0b5f5e111bd235221e0115a:ef134f2a180ba05de91ab32d2976f51de13b68d823ea784171b1b0dafee67be4" :> "a11fe48a487f50d05af9867ffef98e55709521b81b90b9e2c395debed9d49fb7")
    @@ ("7ea07b5bf4e8d8f571396a2d43f64b51f6c92d3b0167d06c397d4406607f86a7:ef134f2a180ba05de91ab32d2976f51de13b68d823ea784171b1b0dafee67be4" :> "974453e1972178dffcc4e9c748d37069f720c9350d6760f8b2685d6abd27f11f")
    @@ ("807a7eb9720c95cbcff3b9634525c33263caf552b7a416cdabea01bb3ff4e5cb:ef134f2a180ba05de91ab32d2976f51de13b68d823ea784171b1b0dafee67be4" :> "4b47ef5de041c0d03075fcef3979f4c111ade475df042039177d6c339616b588")
    @@ ("85e345b80458c623617a6dbe423d97a5da11d2cf9cfdad0020bb86a9272f12ed:9328a9dc66caf8eb870451eb1879730a4281b7693a3dcb87cb2d58d7cfb5bad3" :> "6964fffe04e5c35e53caf78ef491d4947923db61ac3b2218018100488f13d476")
    @@ ("8e2c43a6d18439eadb3746472e3b05b0cd38e72f3eb29b610ae9fcb4192e3815:bdb629a6bfb16cfe9d59ed15188bd6cddfa357604ab3a34f3c430dfe8a909adf" :> "a931c3e5b4168deda3edc907d5f6c57d3a522985ef8ddc22e3f9df3a33002f94")
    @@ ("8e2c43a6d18439eadb3746472e3b05b0cd38e72f3eb29b610ae9fcb4192e3815:ef134f2a180ba05de91ab32d2976f51de13b68d823ea784171b1b0dafee67be4" :> "3ed6981544583e3189c4ae8a59826ffb2ef1a141637126bad0056817a2233cd2")
    @@ ("8fbc785b2560d99c34b1cbd025fa4b91c74f9eb4bd3033d8c9d2644b13657e21:ef134f2a180ba05de91ab32d2976f51de13b68d823ea784171b1b0dafee67be4" :> "36bd5a334b583858bd4300cd4d7ce3cb58f5a32efcae8981f6a9c54ecfd1e20f")
    @@ ("91b238fb422790a54c4964b1acaf04ba58e913e2cfbdb4fc1ee605f03b19cee1:bdb629a6bfb16cfe9d59ed15188bd6cddfa357604ab3a34f3c430dfe8a909adf" :> "db0716ed68dc6cee636e0de4ddb2c96f216a25bf04c4fbeed257277aacefa75c")
    @@ ("91b238fb422790a54c4964b1acaf04ba58e913e2cfbdb4fc1ee605f03b19cee1:ef134f2a180ba05de91ab32d2976f51de13b68d823ea784171b1b0dafee67be4" :> "5551a702faf1c03e34ea1b31f93a26a8d1b6eeab58382767cdd057478d11221b")
    @@ ("9328a9dc66caf8eb870451eb1879730a4281b7693a3dcb87cb2d58d7cfb5bad3:ef134f2a180ba05de91ab32d2976f51de13b68d823ea784171b1b0dafee67be4" :> "bdd0cc25cf23f175c057a6a7a095cefe2e20aa92030a2f1ca2a0396c1c7402e9")
    @@ ("a11fe48a487f50d05af9867ffef98e55709521b81b90b9e2c395debed9d49fb7:ef134f2a180ba05de91ab32d2976f51de13b68d823ea784171b1b0dafee67be4" :> "09994a540cae147f9de30d166f45f78ab68c02a349b110a58c5edeabbe04eeb2")
    @@ ("aa184ccff6f12136a2b48a6a8e881b087864363bc51f075e0c4cf526e52cd98a:ef134f2a180ba05de91ab32d2976f51de13b68d823ea784171b1b0dafee67be4" :> "d9842762bb20fb4414509f66f2646dff6e8a7edcc107bb053256a773686796cb")
    @@ ("b0aac63f02dfc34ee8516c9ee15f78d8958a3338a33e0ac0297132f442f98c6b:ef134f2a180ba05de91ab32d2976f51de13b68d823ea784171b1b0dafee67be4" :> "dd483a2c61efbe05c5accc0db157a92033654e060ceca7bb73534131c1ff70d3")
    @@ ("bd019f2a4dfbbce07fa07130143100a76ca0f87707c6b380abfdde8c584767db:ef134f2a180ba05de91ab32d2976f51de13b68d823ea784171b1b0dafee67be4" :> "38ee153b34193c518c59b7d1641022c08bff1b8d9a75544e245ad6a0c91ec5b7")
    @@ ("bdb629a6bfb16cfe9d59ed15188bd6cddfa357604ab3a34f3c430dfe8a909adf:ef134f2a180ba05de91ab32d2976f51de13b68d823ea784171b1b0dafee67be4" :> "91b238fb422790a54c4964b1acaf04ba58e913e2cfbdb4fc1ee605f03b19cee1")
    @@ ("c52d3efee4568499de3f2644c731c12038fed75c9a4bc21ad219f1a84e02a4fd:ef134f2a180ba05de91ab32d2976f51de13b68d823ea784171b1b0dafee67be4" :> "e5c688d5a7677523a539f5f656f969168e5d0c9e6a02232c1e5a0dda1d1b0695")
    @@ ("c630a14f3ee1e6eb668dd77cff30dbf0094c785b4b386c73b1aa77bf669aead8:ef134f2a180ba05de91ab32d2976f51de13b68d823ea784171b1b0dafee67be4" :> "89b48f5ea13d5bcebbe8816a41bd474a5e5bb44e945eee5593ff69d8ee0444c3")
    @@ ("e5cb00b68087b58c577df49c18ddeadb458119545663f89d69ecb9cc536edf0d:ef134f2a180ba05de91ab32d2976f51de13b68d823ea784171b1b0dafee67be4" :> "2e8200d715160f324e607115867c183d8c0173a358cbce38e26ff920bece3eee")
    @@ ("ef134f2a180ba05de91ab32d2976f51de13b68d823ea784171b1b0dafee67be4:f06b704de1ed2c393537cedd2debd0a7e9669e033818af66563cc645b01a64ad" :> "c893b3b3e7a351937532f47404f7f52bfd30fd2f92bbb5809da65b421b5f3e0a")
    @@ ("0:0:1" :> "5bbc4bd614855ae5da7cf7fdb772acbe041ae138d09fe3592c59bf52ab5591bf")
    @@ ("0:1:1" :> "6d38e1421af00dfcd441d5b5562a3a7b47c8406ac98d51f15ea0d4ba9e9340f9")
    @@ ("0:1:2" :> "75589deef412c9be82a6fe34b020217923097de1acd4490dc37c9e77ddef1eb9")
    @@ ("0:1:1:2" :> "84f195e1ecc2fc48711a08fbd32b81eaf038b572b000e817d8e3404cce4d1a15")
    @@ ("1:1:2" :> "92bc30d183259c78904b56e220a548a8182620ffbbbd3b872a771bba439420a2")
    @@ ("1:2:2" :> "dea917912bb716467ac9d99143f57bad7ef5f5f27c773c29abe60de844ca56b5")

sha256_hexdigest(s) == sha256_table[s]

----------------------------------------------------------------------------
(* DistinctionEngine *)

\* The engine's mutable state, as one value.
Engine == [all_distinctions |-> all_distinctions, relationships |-> relationships]

\* Variant: the pair goes in as given, without ordering its ids.
add_relationship_unordered(rels, id_a, id_b) ==
    rels \cup {<<id_a, id_b>>}

\* Variant: the pair goes in in both orientations.
add_relationship_both(rels, id_a, id_b) ==
    rels \cup {<<id_a, id_b>>, <<id_b, id_a>>}

\* Variant: the set is assigned, not added to.
add_relationship_assign(rels, id_a, id_b) ==
    IF StrLess(id_a, id_b)
    THEN {<<id_a, id_b>>}
    ELSE {<<id_b, id_a>>}

\* _add_relationship(id_a, id_b) on the set rels: the pair goes in with the
\* smaller id first.
add_relationship(rels, id_a, id_b) ==
    IF StrLess(id_a, id_b)
    THEN rels \cup {<<id_a, id_b>>}
    ELSE rels \cup {<<id_b, id_a>>}

\* Variant: the primordial pair is registered, their relationship is not.
engine_init_no_relationship ==
    [all_distinctions |-> (d0.id :> d0) @@ (d1.id :> d1),
     relationships    |-> {}]

\* __init__: the primordial pair and the one relationship between them.
engine_init ==
    [all_distinctions |-> (d0.id :> d0) @@ (d1.id :> d1),
     relationships    |-> add_relationship({}, d0.id, d1.id)]

\* Variant: the ids are joined in argument order.
new_id_str_unordered(a, b) == a.id \o ":" \o b.id

\* f"{a.id}:{b.id}" if a.id < b.id else f"{b.id}:{a.id}"
new_id_str(a, b) ==
    IF StrLess(a.id, b.id)
    THEN a.id \o ":" \o b.id
    ELSE b.id \o ":" \o a.id

\* dict.get(key): the value, or None.
dict_get(d, key) == IF key \in DOMAIN d THEN d[key] ELSE None

\* Variant: the store is lost.
dict_set_lost(d, key, value) == d

\* d[key] = value
dict_set(d, key, value) == (key :> value) @@ d

\* The three outcomes of synthesize, as the variants below share them.
unchanged(self, d) ==
    [ret |-> d,
     all_distinctions |-> self.all_distinctions,
     relationships    |-> self.relationships]

created(self, key, d, id_1, id_2) ==
    [ret |-> d,
     all_distinctions |-> dict_set(self.all_distinctions, key, d),
     relationships    |->
         add_relationship(add_relationship(self.relationships, d.id, id_1),
                          d.id, id_2)]

\* Variant: an already synthesized pair returns the first operand.
synthesize_returns_operand(self, a, b) ==
    IF a.id = b.id THEN unchanged(self, a)
    ELSE LET new_id == sha256_hexdigest(new_id_str(a, b))
         IN  IF dict_get(self.all_distinctions, new_id) # None
             THEN unchanged(self, a)
             ELSE created(self, new_id, Distinction(new_id), a.id, b.id)

\* Variant: no irreflexivity check.
synthesize_no_irreflexivity(self, a, b) ==
    LET new_id == sha256_hexdigest(new_id_str(a, b))
        existing == dict_get(self.all_distinctions, new_id)
    IN  IF existing # None
        THEN unchanged(self, existing)
        ELSE created(self, new_id, Distinction(new_id), a.id, b.id)

\* Variant: the second relationship goes to a again, not to b.
synthesize_one_relationship(self, a, b) ==
    IF a.id = b.id THEN unchanged(self, a)
    ELSE LET new_id == sha256_hexdigest(new_id_str(a, b))
             existing == dict_get(self.all_distinctions, new_id)
         IN  IF existing # None
             THEN unchanged(self, existing)
             ELSE created(self, new_id, Distinction(new_id), a.id, a.id)

\* Variant: the new distinction is stored under the canonical string, not
\* under its id.
synthesize_wrong_key(self, a, b) ==
    IF a.id = b.id THEN unchanged(self, a)
    ELSE LET new_id == sha256_hexdigest(new_id_str(a, b))
             existing == dict_get(self.all_distinctions, new_id)
         IN  IF existing # None
             THEN unchanged(self, existing)
             ELSE created(self, new_id_str(a, b), Distinction(new_id),
                          a.id, b.id)

\* Variant: the creating path ends without a return statement.
synthesize_no_return(self, a, b) ==
    IF a.id = b.id THEN unchanged(self, a)
    ELSE LET new_id == sha256_hexdigest(new_id_str(a, b))
             existing == dict_get(self.all_distinctions, new_id)
         IN  IF existing # None
             THEN unchanged(self, existing)
             ELSE [created(self, new_id, Distinction(new_id), a.id, b.id)
                      EXCEPT !.ret = None]

\* synthesize(a, b) on the engine state self: the returned Distinction and
\* the two collections as the call leaves them.
synthesize(self, a, b) ==
    IF a.id = b.id
    THEN [ret |-> a,
          all_distinctions |-> self.all_distinctions,
          relationships    |-> self.relationships]
    ELSE
      LET new_id   == sha256_hexdigest(new_id_str(a, b))
          existing == dict_get(self.all_distinctions, new_id)
      IN  IF existing # None
          THEN [ret |-> existing,
                all_distinctions |-> self.all_distinctions,
                relationships    |-> self.relationships]
          ELSE
            LET new_distinction == Distinction(new_id)
                with_a == add_relationship(self.relationships,
                                           new_distinction.id, a.id)
                with_b == add_relationship(with_a, new_distinction.id, b.id)
            IN  [ret |-> new_distinction,
                 all_distinctions |->
                     dict_set(self.all_distinctions, new_distinction.id,
                              new_distinction),
                 relationships    |-> with_b]

\* Variant: the first snapshot is kept and handed out again.
get_state_snapshot_cached(self) ==
    IF snapshot # None
    THEN [entities      |-> snapshot.entities,
          relationships |-> snapshot.relationships]
    ELSE [entities      |-> {self.all_distinctions[k] : k \in DOMAIN self.all_distinctions},
          relationships |-> "self.relationships"]

\* get_state_snapshot(): set(self.all_distinctions.values()) is a new set;
\* the second component is self.relationships itself, not a copy.
get_state_snapshot(self) ==
    [entities      |-> {self.all_distinctions[k] : k \in DOMAIN self.all_distinctions},
     relationships |-> "self.relationships"]

\* Reading a set through a reference to it: the engine never rebinds
\* self.relationships, so the reference leads to the live set.
deref(ref) == IF ref = "self.relationships" THEN relationships ELSE {}

\* list(self.all_distinctions.values()): what callers draw operands from.
Registered == {all_distinctions[k] : k \in DOMAIN all_distinctions}

----------------------------------------------------------------------------
(* LinguisticMind (experiments/translation_demo.py): an engine of its own  *)
(* and a vocabulary that names its distinctions in one language.           *)

Languages == {"ENGLISH", "JAPANESE"}

\* The words of each language in the order the experiment introduces them:
\* the two axioms, then the four pondered concepts (the Japanese ones in
\* the Latin spelling of tests/test_isomorphism.py).
Words ==
    ("ENGLISH" :> <<"Void", "Energy", "Existence", "Stasis", "Flux", "Nature">>)
    @@ ("JAPANESE" :> <<"Mu", "Ki", "Sonzai", "Sei", "Dou", "Shizen">>)

\* {}
dict_empty == [k \in {} |-> None]

\* LinguisticMind.__init__
LinguisticMind(language_name) ==
    [language |-> language_name,
     engine   |-> engine_init,
     vocab    |-> dict_empty,
     concepts |-> dict_empty,
     d0       |-> d0,
     d1       |-> d1]

\* self.vocab[distinction.id] = word; self.concepts[word] = distinction.id
label_axiom(self, distinction, word) ==
    [self EXCEPT !.vocab    = dict_set(@, distinction.id, word),
                 !.concepts = dict_set(@, word, distinction.id)]

\* Variant: which distinctions are combined depends on the words' lengths.
ponder_by_word(self, word_a, word_b, new_word) ==
    LET d_a == self.engine.all_distinctions[self.concepts[word_a]]
        d_b == self.engine.all_distinctions[self.concepts[word_b]]
        r   == synthesize(self.engine, d_a,
                          IF Len(word_a) < Len(word_b) THEN d_b ELSE d_a)
    IN  [ret  |-> r.ret,
         self |-> [self EXCEPT
                     !.engine   = [all_distinctions |-> r.all_distinctions,
                                   relationships    |-> r.relationships],
                     !.vocab    = dict_set(@, r.ret.id, new_word),
                     !.concepts = dict_set(@, new_word, r.ret.id)]]

\* LinguisticMind.ponder: look the two words up, synthesize their
\* distinctions, name the result.  Returns the result and the mind after.
ponder(self, word_a, word_b, new_word) ==
    LET id_a == self.concepts[word_a]
        id_b == self.concepts[word_b]
        d_a  == self.engine.all_distinctions[id_a]
        d_b  == self.engine.all_distinctions[id_b]
        r    == synthesize(self.engine, d_a, d_b)
        new_d == r.ret
    IN  [ret  |-> new_d,
         self |-> [self EXCEPT
                     !.engine   = [all_distinctions |-> r.all_distinctions,
                                   relationships    |-> r.relationships],
                     !.vocab    = dict_set(@, new_d.id, new_word),
                     !.concepts = dict_set(@, new_word, new_d.id)]]

----------------------------------------------------------------------------
(* Threads.  The engine takes no lock, so calls made from several threads  *)
(* interleave between the statements of synthesize that read or write the  *)
(* engine: the dict lookup, the dict store, each _add_relationship.        *)

Threads == 1 .. MaxThreads

\* A thread that is not inside synthesize.
idle == [pc |-> "idle", a |-> None, b |-> None, new_id |-> "",
         existing |-> None, ret |-> None]

----------------------------------------------------------------------------
(* The state machine: one engine, driven by a caller. *)

Init ==
    /\ all_distinctions = engine_init.all_distinctions
    /\ relationships = engine_init.relationships
    /\ op = "__init__"
    /\ arg_a = None
    /\ arg_b = None
    /\ ret = None
    /\ pre = engine_init
    /\ repeated = FALSE
    /\ snapshot = None
    /\ threads = [t \in Threads |-> idle]
    /\ thread_registered = {}
    /\ thread_related = {}
    /\ minds = [l \in Languages |-> LinguisticMind(l)]
    /\ pondered = [l \in Languages |-> <<>>]

\* One call synthesize(a, b), run to completion.
SynthesizeCall(a, b) ==
    LET r == synthesize(Engine, a, b)
    IN  /\ all_distinctions' = r.all_distinctions
        /\ relationships' = r.relationships
        /\ op' = "synthesize"
        /\ arg_a' = a
        /\ arg_b' = b
        /\ ret' = r.ret
        /\ pre' = Engine
        /\ repeated' = (op = "synthesize" /\ arg_a = a /\ arg_b = b)
        /\ UNCHANGED snapshot
        /\ UNCHANGED <<thread_vars, mind_vars>>

\* The call leaves the dict within cap entries.
WithinCap(a, b, cap) ==
    Cardinality(DOMAIN synthesize(Engine, a, b).all_distinctions) <= cap

\* synthesize on operands the engine holds (the primordial pair and whatever
\* it returned earlier).
Synthesize ==
    \E a \in Registered : \E b \in Registered :
        /\ WithinCap(a, b, MaxEntities)
        /\ SynthesizeCall(a, b)

\* synthesize on any two distinctions, held by the engine or not.
SynthesizeAny ==
    \E a \in Registered \cup Foreign : \E b \in Registered \cup Foreign :
        /\ WithinCap(a, b, MaxEntitiesOpen)
        /\ SynthesizeCall(a, b)

\* What the callers of SynthesizeColon pass: the primordial pair and the
\* distinctions of their own.
ColonOperands == {d0, d1} \cup ForeignColon

\* synthesize on the primordial distinctions and on distinctions whose ids
\* contain the separator.
SynthesizeColon ==
    \E a \in ColonOperands : \E b \in ColonOperands :
        /\ WithinCap(a, b, MaxEntitiesColon)
        /\ SynthesizeCall(a, b)

\* One call get_state_snapshot().  The tuple's first component is a copy
\* made now; its second is a reference to the live set, so what the holder
\* reads through it later is `relationships` as it is then.
\* entities_then and relationships_then record the content of the two
\* components at the time of the call.
GetStateSnapshot ==
    /\ snapshot' = [entities |-> get_state_snapshot(Engine).entities,
                    relationships |-> get_state_snapshot(Engine).relationships,
                    entities_then |-> get_state_snapshot(Engine).entities,
                    relationships_then |-> relationships]
    /\ op' = "get_state_snapshot"
    /\ arg_a' = None
    /\ arg_b' = None
    /\ ret' = None
    /\ pre' = Engine
    /\ repeated' = (op = "get_state_snapshot")
    /\ UNCHANGED <<all_distinctions, relationships>>
    /\ UNCHANGED <<thread_vars, mind_vars>>

Next == Synthesize \/ GetStateSnapshot

Spec == Init /\ [][Next]_vars

NextOpen == SynthesizeAny \/ GetStateSnapshot

SpecOpen == Init /\ [][NextOpen]_vars

NextColon == SynthesizeColon \/ GetStateSnapshot

SpecColon == Init /\ [][NextColon]_vars

----------------------------------------------------------------------------
(* The state machine: one engine, called from several threads. *)

\* The ids that calls in flight may still store.
Pending ==
    {threads[u].new_id : u \in {v \in Threads : threads[v].pc \in {"get", "set"}}}

\* Thread t enters synthesize(a, b) and runs to the dict lookup: the
\* irreflexivity return, or the canonical string and its digest.  A thread
\* is one call: MaxThreads calls overlap or follow one another in any way.
ThreadCall(t) ==
    /\ threads[t].pc = "idle"
    /\ \E a \in Registered : \E b \in Registered :
           IF a.id = b.id
           THEN threads' = [threads EXCEPT ![t] =
                    [pc |-> "returned", a |-> a, b |-> b, new_id |-> "",
                     existing |-> None, ret |-> a]]
           ELSE LET new_id == sha256_hexdigest(new_id_str(a, b))
                IN  /\ Cardinality(DOMAIN all_distinctions \cup Pending
                                   \cup {new_id}) <= MaxEntitiesThreads
                    /\ threads' = [threads EXCEPT ![t] =
                           [pc |-> "get", a |-> a, b |-> b, new_id |-> new_id,
                            existing |-> None, ret |-> None]]
    /\ UNCHANGED <<all_distinctions, relationships, call_vars, snapshot,
                   thread_registered, thread_related, mind_vars>>

\* existing = self.all_distinctions.get(new_id); if existing: return existing
ThreadGet(t) ==
    /\ threads[t].pc = "get"
    /\ LET existing == dict_get(all_distinctions, threads[t].new_id)
       IN  threads' = [threads EXCEPT ![t] =
               IF existing # None
               THEN [@ EXCEPT !.pc = "returned", !.existing = existing,
                              !.ret = existing]
               ELSE [@ EXCEPT !.pc = "set"]]
    /\ UNCHANGED <<all_distinctions, relationships, call_vars, snapshot,
                   thread_registered, thread_related, mind_vars>>

\* new_distinction = Distinction(id=new_id)
\* self.all_distinctions[new_distinction.id] = new_distinction
ThreadSet(t) ==
    /\ threads[t].pc = "set"
    /\ LET new_distinction == Distinction(threads[t].new_id)
       IN  /\ all_distinctions' =
                  dict_set(all_distinctions, new_distinction.id, new_distinction)
           /\ thread_registered' =
                  thread_registered \cup {<<new_distinction.id, new_distinction>>}
    /\ threads' = [threads EXCEPT ![t].pc = "rel_a"]
    /\ UNCHANGED <<relationships, call_vars, snapshot, thread_related,
                   mind_vars>>

\* self._add_relationship(new_distinction.id, a.id)
ThreadRelA(t) ==
    /\ threads[t].pc = "rel_a"
    /\ relationships' =
           add_relationship(relationships, threads[t].new_id, threads[t].a.id)
    /\ thread_related' =
           add_relationship(thread_related, threads[t].new_id, threads[t].a.id)
    /\ threads' = [threads EXCEPT ![t].pc = "rel_b"]
    /\ UNCHANGED <<all_distinctions, call_vars, snapshot, thread_registered,
                   mind_vars>>

\* self._add_relationship(new_distinction.id, b.id); return new_distinction
ThreadRelB(t) ==
    /\ threads[t].pc = "rel_b"
    /\ relationships' =
           add_relationship(relationships, threads[t].new_id, threads[t].b.id)
    /\ thread_related' =
           add_relationship(thread_related, threads[t].new_id, threads[t].b.id)
    /\ threads' = [threads EXCEPT ![t] =
           [@ EXCEPT !.pc = "returned", !.ret = Distinction(threads[t].new_id)]]
    /\ UNCHANGED <<all_distinctions, call_vars, snapshot, thread_registered,
                   mind_vars>>

NextThreads ==
    \/ \E t \in Threads :
           \/ ThreadCall(t)
           \/ ThreadGet(t)
           \/ ThreadSet(t)
           \/ ThreadRelA(t)
           \/ ThreadRelB(t)
    \/ GetStateSnapshot

SpecThreads == Init /\ [][NextThreads]_vars

----------------------------------------------------------------------------
(* The state machine: two minds, each with an engine of its own, taught    *)
(* the same thoughts in their own words.                                   *)

\* How many words each mind has a distinction for.
Known == Cardinality(DOMAIN minds["ENGLISH"].concepts)

\* english.label_axiom(english.d0, "Void"); english.label_axiom(english.d1,
\* "Energy"), and the same in Japanese.
LabelAxioms ==
    /\ Known = 0
    /\ minds' = [l \in Languages |->
                   label_axiom(label_axiom(minds[l], minds[l].d0, Words[l][1]),
                               minds[l].d1, Words[l][2])]
    /\ UNCHANGED <<all_distinctions, relationships, call_vars, snapshot,
                   thread_vars, pondered>>

\* Each mind ponders its words number i and j and names the result with its
\* next word.
Ponder(i, j) ==
    /\ Known >= 2
    /\ Known < Len(Words["ENGLISH"])
    /\ minds' = [l \in Languages |->
                   ponder(minds[l], Words[l][i], Words[l][j],
                          Words[l][Known + 1]).self]
    /\ pondered' = [l \in Languages |->
                      Append(pondered[l],
                             ponder(minds[l], Words[l][i], Words[l][j],
                                    Words[l][Known + 1]).ret)]
    /\ UNCHANGED <<all_distinctions, relationships, call_vars, snapshot,
                   thread_vars>>

\* A thought over any two words known so far.
PonderAny == \E i \in 1 .. Known : \E j \in 1 .. Known : Ponder(i, j)

NextMinds == LabelAxioms \/ PonderAny

SpecMinds == Init /\ [][NextMinds]_vars

----------------------------------------------------------------------------
(* Vocabulary of the properties *)

\* The distinctions the last call found registered.
PreRegistered == {pre.all_distinctions[k] : k \in DOMAIN pre.all_distinctions}

\* The unordered pair {x, y} in canonical orientation.
Oriented(x, y) == IF StrLess(x, y) THEN <<x, y>> ELSE <<y, x>>

\* The canonical id of the unordered pair of ids {x, y}.
PairId(x, y) ==
    sha256_hexdigest(IF StrLess(x, y) THEN x \o ":" \o y ELSE y \o ":" \o x)

\* The last call was synthesize on two operands with different ids.
DistinctCall == op = "synthesize" /\ arg_a.id # arg_b.id

\* ... and both operands were registered when it was made.
RegisteredCall ==
    DistinctCall /\ arg_a \in PreRegistered /\ arg_b \in PreRegistered

\* The last call registered a distinction.
Created == op = "synthesize" /\ ret.id \notin DOMAIN pre.all_distinctions

\* Both endpoints of every stored relationship are keys of the dict.
EndpointsRegistered ==
    \A r \in relationships :
        r[1] \in DOMAIN all_distinctions /\ r[2] \in DOMAIN all_distinctions

----------------------------------------------------------------------------
(* C1 *)

\* C1 (idempotence): when synthesize(A, B), A and B registered with
\* different ids, is followed directly by synthesize(A, B) again, the second
\* call returns the same distinction as the first and leaves the dict and
\* the relationship set as the first call left them.
C1_Idempotence ==
    [][ (/\ RegisteredCall
         /\ op' = "synthesize" /\ arg_a' = arg_a /\ arg_b' = arg_b)
        => (/\ ret' = ret
            /\ all_distinctions' = all_distinctions
            /\ relationships' = relationships) ]_vars

\* A second synthesize(A, B) in a row has returned, A and B registered and
\* different, the pair being a synthesized one.
C1_Witness ==
    /\ RegisteredCall
    /\ repeated
    /\ ret.id = PairId(arg_a.id, arg_b.id)
    /\ ret.id \in DOMAIN all_distinctions

----------------------------------------------------------------------------
(* C2 *)

\* C2 (irreflexivity): synthesize(a, b) with a.id = b.id returns a and
\* leaves the dict and the relationship set exactly as they were, whether
\* or not the operand is registered.
C2_Irreflexivity ==
    (op = "synthesize" /\ arg_a.id = arg_b.id)
    => (/\ ret = arg_a
        /\ all_distinctions = pre.all_distinctions
        /\ relationships = pre.relationships)

\* synthesize(A, A) has returned for a synthesized, registered A.
C2_Witness ==
    /\ op = "synthesize"
    /\ arg_a.id = arg_b.id
    /\ arg_a \in PreRegistered
    /\ arg_a.id \notin {d0.id, d1.id}

----------------------------------------------------------------------------
(* C3 *)

\* C3 (symmetry): from any reachable engine state, synthesize(A, B) and
\* synthesize(B, A) on registered A, B with different ids return the same
\* distinction and leave the same dict and the same relationship set.
C3_Symmetry ==
    \A a \in Registered : \A b \in Registered :
        a.id # b.id => synthesize(Engine, a, b) = synthesize(Engine, b, a)

\* synthesize(A, B) has created a distinction with A.id > B.id, and the
\* call with the operands swapped, made in the state it was made in, gives
\* the state reached.
C3_Witness ==
    /\ RegisteredCall
    /\ Created
    /\ StrLess(arg_b.id, arg_a.id)
    /\ synthesize(pre, arg_b, arg_a) =
           [ret |-> ret, all_distinctions |-> all_distinctions,
            relationships |-> relationships]

----------------------------------------------------------------------------
(* C4 *)

\* C4 (dedup / no-op rule): a synthesize(a, b) call changes the engine state
\* if and only if a.id # b.id and the canonical id of the pair was not
\* registered; when it was registered, the call returns the registered
\* distinction and leaves dict and relationship set as they were.
C4_DedupRule ==
    op = "synthesize" =>
        /\ (Engine # pre) <=>
               (/\ arg_a.id # arg_b.id
                /\ PairId(arg_a.id, arg_b.id) \notin DOMAIN pre.all_distinctions)
        /\ (/\ arg_a.id # arg_b.id
            /\ PairId(arg_a.id, arg_b.id) \in DOMAIN pre.all_distinctions)
           => (/\ ret = pre.all_distinctions[PairId(arg_a.id, arg_b.id)]
               /\ Engine = pre)

\* synthesize has returned for a pair that was synthesized before, called
\* this time with the operands the other way round.
C4_Witness ==
    /\ DistinctCall
    /\ PairId(arg_a.id, arg_b.id) \in DOMAIN pre.all_distinctions
    /\ StrLess(arg_b.id, arg_a.id)
    /\ ~repeated

----------------------------------------------------------------------------
(* C5 *)

\* C5 (creation step): synthesize(A, B) with A.id # B.id, both registered
\* and the canonical id of the pair not registered, adds exactly the
\* returned distinction, under its id, to the dict, and exactly the two
\* canonically oriented relationships new-A and new-B to the relationship
\* set; on a fresh engine synthesize(d0, d1) leaves 3 distinctions and 3
\* relationships.
C5_CreationStep ==
    (/\ RegisteredCall
     /\ PairId(arg_a.id, arg_b.id) \notin DOMAIN pre.all_distinctions)
    => (/\ ret = Distinction(PairId(arg_a.id, arg_b.id))
        /\ all_distinctions = (ret.id :> ret) @@ pre.all_distinctions
        /\ Cardinality(DOMAIN all_distinctions) =
               Cardinality(DOMAIN pre.all_distinctions) + 1
        /\ relationships =
               pre.relationships
               \cup {Oriented(ret.id, arg_a.id), Oriented(ret.id, arg_b.id)}
        /\ Cardinality(relationships) = Cardinality(pre.relationships) + 2
        /\ (/\ DOMAIN pre.all_distinctions = {"0", "1"}
            /\ pre.relationships = {<<"0", "1">>})
           => (/\ Cardinality(DOMAIN all_distinctions) = 3
               /\ Cardinality(relationships) = 3))

\* synthesize has created a distinction from two synthesized operands.
C5_Witness ==
    /\ RegisteredCall
    /\ Created
    /\ arg_a.id \notin {"0", "1"}
    /\ arg_b.id \notin {"0", "1"}

----------------------------------------------------------------------------
(* C6 *)

\* No relationship between the operands of the last call was stored when it
\* was made.
Unrelated ==
    /\ <<arg_a.id, arg_b.id>> \notin pre.relationships
    /\ <<arg_b.id, arg_a.id>> \notin pre.relationships

\* Growth by exactly one distinction and exactly two relationships.
DiamondGrowth ==
    /\ Cardinality(DOMAIN all_distinctions) =
           Cardinality(DOMAIN pre.all_distinctions) + 1
    /\ Cardinality(relationships) = Cardinality(pre.relationships) + 2
    /\ relationships \ pre.relationships =
           {Oriented(ret.id, arg_a.id), Oriented(ret.id, arg_b.id)}

\* C6 as stated (diamond formation): synthesize(A, B) on registered A, B
\* with different ids and no stored relationship between A and B grows the
\* relationship set by exactly 2 and the dict by exactly 1.
C6_DiamondAsStated ==
    (RegisteredCall /\ Unrelated) => DiamondGrowth

\* C6 as amended (diamond formation): synthesize(A, B) on registered A, B
\* with different ids, no stored relationship between A and B and no
\* distinction registered under the canonical id of the pair, grows the
\* relationship set by exactly 2 (C-A, C-B) and the dict by exactly 1.
C6_DiamondAmended ==
    (/\ RegisteredCall
     /\ Unrelated
     /\ PairId(arg_a.id, arg_b.id) \notin DOMAIN pre.all_distinctions)
    => DiamondGrowth

\* synthesize has created a distinction from two operands that had no
\* relationship between them.
C6_Witness ==
    /\ RegisteredCall
    /\ Unrelated
    /\ Created

----------------------------------------------------------------------------
(* C7 *)

\* C7 (closure): in every state reached by synthesize calls on registered
\* operands, both endpoint ids of every stored relationship are keys of
\* the dict.
C7_Closure == EndpointsRegistered

\* synthesize has just added two relationships to a store that held
\* synthesized distinctions already.
C7_Witness ==
    /\ RegisteredCall
    /\ Created
    /\ Cardinality(relationships) >= 5
    /\ Oriented(ret.id, arg_a.id) \in relationships

----------------------------------------------------------------------------
(* C8 *)

\* C8 (closure for every input): after synthesize(a, b) with an operand
\* whose id is not a key of the dict, both endpoint ids of every stored
\* relationship are still keys of the dict.
C8_ClosureAnyInput ==
    (/\ op = "synthesize"
     /\ (arg_a \notin PreRegistered \/ arg_b \notin PreRegistered))
    => EndpointsRegistered

----------------------------------------------------------------------------
(* C9 *)

\* C9 (canonical orientation): every stored relationship (x, y) has
\* x <= y in the string order on ids, and no pair of different ids is
\* stored in both orientations.
C9_CanonicalOrientation ==
    \A r \in relationships :
        /\ StrLess(r[1], r[2]) \/ r[1] = r[2]
        /\ r[1] # r[2] => <<r[2], r[1]>> \notin relationships

\* synthesize has created a distinction whose id sorts below one operand
\* and above the other, so that _add_relationship took each branch once.
C9_Witness ==
    /\ RegisteredCall
    /\ Created
    /\ StrLess(ret.id, arg_a.id)
    /\ StrLess(arg_b.id, ret.id)
    /\ <<ret.id, arg_a.id>> \in relationships
    /\ <<arg_b.id, ret.id>> \in relationships

----------------------------------------------------------------------------
(* C10 *)

\* C10 (non-shrinking): no synthesize or get_state_snapshot call removes or
\* replaces an entry of the dict or removes a relationship, so both sizes
\* never decrease.
C10_NonShrinking ==
    [][ /\ DOMAIN all_distinctions \subseteq DOMAIN all_distinctions'
        /\ \A k \in DOMAIN all_distinctions :
               all_distinctions'[k] = all_distinctions[k]
        /\ relationships \subseteq relationships'
        /\ Cardinality(DOMAIN all_distinctions)
               <= Cardinality(DOMAIN all_distinctions')
        /\ Cardinality(relationships) <= Cardinality(relationships') ]_vars

\* A snapshot was taken, and synthesize calls after it have grown the dict
\* and the relationship set beyond it.
C10_Witness ==
    /\ snapshot # None
    /\ Created
    /\ Cardinality(snapshot.entities) + 2 <= Cardinality(DOMAIN all_distinctions)
    /\ snapshot.relationships_then \subseteq relationships
    /\ snapshot.relationships_then # relationships

----------------------------------------------------------------------------
(* C11 *)

\* C11 (primordial floor): in every reachable state, the one right after
\* construction included, the dict holds origin0 under "0" and origin1
\* under "1", and the relationship set holds the pair ("0", "1").
C11_PrimordialFloor ==
    /\ "0" \in DOMAIN all_distinctions
    /\ all_distinctions["0"] = Distinction("0")
    /\ "1" \in DOMAIN all_distinctions
    /\ all_distinctions["1"] = Distinction("1")
    /\ <<"0", "1">> \in relationships

\* The store has grown to its bound, by calls that took the primordial
\* distinctions as operands among others.
C11_Witness ==
    /\ Created
    /\ Cardinality(DOMAIN all_distinctions) = MaxEntities
    /\ arg_a.id = "0"

----------------------------------------------------------------------------
(* C12 *)

\* C12 (initial state): get_state_snapshot() as the first call on a newly
\* constructed engine returns exactly the two primordial distinctions and
\* exactly the one relationship ("0", "1"); the dict has 2 entries and the
\* relationship set 1.
C12_InitialSnapshot ==
    [][ (op = "__init__" /\ op' = "get_state_snapshot")
        => (/\ snapshot'.entities = {Distinction("0"), Distinction("1")}
            /\ snapshot'.relationships_then = {<<"0", "1">>}
            /\ Cardinality(DOMAIN all_distinctions') = 2
            /\ Cardinality(relationships') = 1) ]_vars

\* The first snapshot of a newly constructed engine has been returned.
C12_Witness ==
    /\ op = "get_state_snapshot"
    /\ ~repeated
    /\ pre = engine_init
    /\ Cardinality(snapshot.entities) = 2
    /\ Cardinality(snapshot.relationships_then) = 1

----------------------------------------------------------------------------
(* C13 *)

\* C13 (snapshot independence): whatever synthesize calls follow, both
\* components of a returned snapshot, as its holder reads them, stay equal
\* to what they were when the snapshot was taken.
C13_SnapshotIndependence ==
    snapshot # None =>
        /\ snapshot.entities = snapshot.entities_then
        /\ deref(snapshot.relationships) = snapshot.relationships_then

----------------------------------------------------------------------------
(* C14 *)

\* C14 (read-only observation): a get_state_snapshot() call leaves the dict
\* and the relationship set unchanged and returns exactly the registered
\* distinctions and exactly the stored relationships of the state it was
\* made in.
C14_SnapshotReadOnly ==
    op = "get_state_snapshot" =>
        /\ Engine = pre
        /\ snapshot.entities = PreRegistered
        /\ snapshot.relationships_then = pre.relationships
        /\ deref(snapshot.relationships) = pre.relationships

\* A second snapshot has been returned, the store having grown since the
\* first.
C14_Witness ==
    /\ op = "get_state_snapshot"
    /\ ~repeated
    /\ Cardinality(snapshot.entities) >= 4
    /\ snapshot.entities = Registered

----------------------------------------------------------------------------
(* C15 *)

\* The threads that have returned the distinction they stored themselves.
Creators ==
    {t \in Threads : /\ threads[t].pc = "returned"
                     /\ threads[t].new_id # ""
                     /\ threads[t].existing = None}

----------------------------------------------------------------------------
(* C16 *)

\* C16 (snapshot consistency): in every tuple get_state_snapshot() has
\* returned, also one returned while a synthesize call was in flight on
\* another thread, every synthesized distinction of the entity set comes
\* with its two relationships, to two distinctions of the entity set whose
\* pair it is, and every relationship joins two distinctions of the entity
\* set.
C16_SnapshotConsistency ==
    snapshot # None =>
        LET ids == {e.id : e \in snapshot.entities_then}
        IN  /\ \A n \in ids \ {d0.id, d1.id} :
                   \E x \in ids : \E y \in ids :
                       /\ x # y
                       /\ n = PairId(x, y)
                       /\ Oriented(n, x) \in snapshot.relationships_then
                       /\ Oriented(n, y) \in snapshot.relationships_then
            /\ \A r \in snapshot.relationships_then :
                   r[1] \in ids /\ r[2] \in ids

----------------------------------------------------------------------------
(* C17 *)

\* C17 (label independence): two minds, each with an engine of its own,
\* that name the two primordial distinctions and then ponder the same
\* sequence of pairs, each in its own words, are returned the same
\* distinction at every step, hold the same distinction under every pair of
\* corresponding words, and have engines with equal dicts and equal
\* relationship sets.
C17_LabelIndependence ==
    /\ pondered["ENGLISH"] = pondered["JAPANESE"]
    /\ minds["ENGLISH"].engine = minds["JAPANESE"].engine
    /\ \A k \in 1 .. Known :
           /\ Words["JAPANESE"][k] \in DOMAIN minds["JAPANESE"].concepts
           /\ minds["ENGLISH"].concepts[Words["ENGLISH"][k]]
                  = minds["JAPANESE"].concepts[Words["JAPANESE"][k]]

\* The experiment's hierarchy has been built in both languages: Existence
\* from Void and Energy, Stasis from Existence and Void, Flux from Existence
\* and Energy, Nature from Stasis and Flux; four new distinctions each.
C17_Witness ==
    /\ Len(pondered["ENGLISH"]) = 4
    /\ Len(pondered["JAPANESE"]) = 4
    /\ pondered["ENGLISH"][1].id = PairId("0", "1")
    /\ pondered["ENGLISH"][2].id = PairId(pondered["ENGLISH"][1].id, "0")
    /\ pondered["ENGLISH"][3].id = PairId(pondered["ENGLISH"][1].id, "1")
    /\ pondered["ENGLISH"][4].id
           = PairId(pondered["ENGLISH"][2].id, pondered["ENGLISH"][3].id)
    /\ minds["ENGLISH"].concepts["Nature"] = pondered["ENGLISH"][4].id
    /\ minds["JAPANESE"].concepts["Shizen"] = pondered["JAPANESE"][4].id
    /\ minds["ENGLISH"].vocab # minds["JAPANESE"].vocab


----------------------------------------------------------------------------
(* C19 *)

\* The engine state a synthesize call leaves.
StateOf(r) ==
    [all_distinctions |-> r.all_distinctions, relationships |-> r.relationships]

\* C19 (path independence): from any reachable state with room for two more
\* distinctions, synthesize(a, b) then synthesize(c, d), and
\* synthesize(c, d) then synthesize(a, b), all four operands registered at
\* the start, return the same two ids and end in the same dict and
\* relationship set; synthesizing the two results, in the order they were
\* obtained, returns the same id after either.
C19_PathIndependence ==
    Cardinality(DOMAIN all_distinctions) + 2 <= MaxEntities =>
        \A a \in Registered : \A b \in Registered :
        \A c \in Registered : \A d \in Registered :
            LET ab_1 == synthesize(Engine, a, b)
                cd_1 == synthesize(StateOf(ab_1), c, d)
                cd_2 == synthesize(Engine, c, d)
                ab_2 == synthesize(StateOf(cd_2), a, b)
            IN  /\ ab_1.ret.id = ab_2.ret.id
                /\ cd_1.ret.id = cd_2.ret.id
                /\ StateOf(cd_1) = StateOf(ab_2)
                /\ synthesize(StateOf(cd_1), ab_1.ret, cd_1.ret).ret.id =
                       synthesize(StateOf(ab_2), cd_2.ret, ab_2.ret).ret.id

\* Two creating calls on different pairs have been made, the operands of
\* both registered before either: the last call, and the one that made some
\* other registered distinction.
C19_Witness ==
    /\ RegisteredCall
    /\ Created
    /\ \E e \in PreRegistered : \E c \in PreRegistered : \E d \in PreRegistered :
           /\ c.id # d.id
           /\ e.id = PairId(c.id, d.id)
           /\ e \notin {arg_a, arg_b}
           /\ {c, d} # {arg_a, arg_b}
           /\ \A x \in {c, d, arg_a, arg_b} :
                  x.id \in {"0", "1", PairId("0", "1")}

----------------------------------------------------------------------------
(* C20 *)

\* C20 (path dependence): from any reachable state with room for one more
\* distinction, for registered p1, p2 with different ids,
\* synthesize(synthesize(p1, d1), p2) and synthesize(p1, synthesize(p2, d1))
\* return distinctions with different ids.
C20_PathDependence ==
    Cardinality(DOMAIN all_distinctions) + 1 <= MaxEntities =>
        \A p1 \in Registered : \A p2 \in Registered :
            p1.id # p2.id =>
                LET step_A == synthesize(Engine, p1, d1)
                    path_A == synthesize(StateOf(step_A), step_A.ret, p2)
                    step_B == synthesize(Engine, p2, d1)
                    path_B == synthesize(StateOf(step_B), p1, step_B.ret)
                IN  path_A.ret.id # path_B.ret.id

\* synthesize(synthesize(p1, d1), p2) has created a distinction, p2 a
\* synthesized distinction and p1 not origin1, and its id is not the id of
\* synthesize(p1, synthesize(p2, d1)).
C20_Witness ==
    /\ RegisteredCall
    /\ Created
    /\ arg_b.id \notin {"0", "1"}
    /\ \E p1 \in PreRegistered :
           /\ p1.id \notin {"1", arg_b.id}
           /\ arg_a.id = PairId(p1.id, "1")
           /\ ret.id # PairId(p1.id, PairId(arg_b.id, "1"))

----------------------------------------------------------------------------
(* The measuring tools of the tests: the relationship graph of a state     *)
(* (networkx.Graph), its components and its shortest paths.                *)

\* g = nx.Graph(); g.add_nodes_from([d.id for d in state[0]]);
\* g.add_edges_from(state[1]).  add_edges_from makes a node of every
\* endpoint.
build_graph(entities, rels) ==
    [nodes |-> {d.id : d \in entities}
                 \cup {r[1] : r \in rels} \cup {r[2] : r \in rels},
     edges |-> rels]

\* g.neighbors(n)
neighbors(g, n) ==
    {m \in g.nodes : <<n, m>> \in g.edges \/ <<m, n>> \in g.edges}

\* The nodes within k hops of a node of S.
RECURSIVE within_hops(_, _, _)
within_hops(g, S, k) ==
    IF k = 0
    THEN S
    ELSE within_hops(g, S \cup UNION {neighbors(g, n) : n \in S}, k - 1)

\* nx.node_connected_component(g, n)
node_connected_component(g, n) == within_hops(g, {n}, Cardinality(g.nodes))

\* What shortest_path_length gives when it raises nx.NetworkXNoPath.
NoPath == [no_path |-> TRUE]

\* Breadth-first search from the frontier set S, k hops from the source.
RECURSIVE hops_to(_, _, _, _)
hops_to(g, S, target, k) ==
    IF target \in S
    THEN k
    ELSE hops_to(g, S \cup UNION {neighbors(g, n) : n \in S}, target, k + 1)

\* nx.has_path(g, source, target)
has_path(g, source, target) == target \in node_connected_component(g, source)

\* nx.shortest_path_length(g, source, target)
shortest_path_length(g, source, target) ==
    IF has_path(g, source, target)
    THEN hops_to(g, {source}, target, 0)
    ELSE NoPath

\* The graph of the engine as it is, and as it was before the last call.
Graph == build_graph(Registered, relationships)

PreGraph == build_graph(PreRegistered, pre.relationships)

\* TestTimeDynamics._get_emergent_age_radius: the greatest distance from
\* the origin d0 to a node it reaches, 0 if it reaches none.
get_emergent_age_radius(g) ==
    LET all_ages == {shortest_path_length(g, d0.id, n) :
                        n \in {m \in g.nodes \ {d0.id} : has_path(g, d0.id, m)}}
    IN  IF all_ages = {}
        THEN 0
        ELSE CHOOSE age \in all_ages : \A other \in all_ages : other <= age

----------------------------------------------------------------------------
(* The state machine: one engine, evolved locally (tests/test_time.py).    *)

\* What one round of _evolve_universe_locally may pick for b, given a: a
\* distinction within two hops of a in the graph of the snapshot; any other
\* distinction when there is none.
LocalChoices(a) ==
    LET state == get_state_snapshot(Engine)
        g == build_graph(state.entities, deref(state.relationships))
        neighborhood_ids == within_hops(g, {a.id}, 2) \ {a.id}
    IN  IF \E d \in Registered : d.id \in neighborhood_ids
        THEN {d \in Registered : d.id \in neighborhood_ids}
        ELSE {d \in Registered : d.id # a.id}

\* One round of the loop: take a snapshot, pick a and a b near it,
\* synthesize them.
EvolveLocally ==
    \E a \in Registered : \E b \in LocalChoices(a) :
        LET r == synthesize(Engine, a, b)
        IN  /\ WithinCap(a, b, MaxEntitiesLocal)
            /\ snapshot' =
                   [entities |-> get_state_snapshot(Engine).entities,
                    relationships |-> get_state_snapshot(Engine).relationships,
                    entities_then |-> get_state_snapshot(Engine).entities,
                    relationships_then |-> relationships]
            /\ all_distinctions' = r.all_distinctions
            /\ relationships' = r.relationships
            /\ op' = "synthesize"
            /\ arg_a' = a
            /\ arg_b' = b
            /\ ret' = r.ret
            /\ pre' = Engine
            /\ repeated' = (op = "synthesize" /\ arg_a = a /\ arg_b = b)
            /\ UNCHANGED <<thread_vars, mind_vars>>

NextLocal == EvolveLocally

SpecLocal == Init /\ [][NextLocal]_vars

----------------------------------------------------------------------------
(* C21 *)

\* C21 (content addressing is injective on unordered pairs): when
\* synthesize(a, b), a.id # b.id, has returned, synthesize(x, y),
\* x.id # y.id, returns that same distinction if and only if
\* {x.id, y.id} = {a.id, b.id}, whatever distinctions the callers pass.
C21_InjectiveOnPairs ==
    DistinctCall =>
        \A x \in ColonOperands : \A y \in ColonOperands :
            x.id # y.id =>
                ((synthesize(Engine, x, y).ret = ret)
                    <=> ({x.id, y.id} = {arg_a.id, arg_b.id}))

----------------------------------------------------------------------------
(* C22 *)

\* No synthesize call is in flight on any thread.
Quiescent == \A t \in Threads : threads[t].pc \in {"idle", "returned"}

\* The threads whose last call, on operands with different ids, has returned.
Returned ==
    {t \in Threads : threads[t].pc = "returned" /\ threads[t].new_id # ""}

\* The relationship set that calls made one after another leave behind a
\* dict with the keys ids: the primordial pair, and for each other id the
\* two pairs with the ids it was synthesized from.
SequentialRelationships(ids) ==
    {Oriented(d0.id, d1.id)}
    \cup UNION {{Oriented(n, x), Oriented(n, y)} :
                  <<n, x, y>> \in {p \in ids \X ids \X ids :
                                      /\ p[2] # p[3]
                                      /\ p[1] = PairId(p[2], p[3])}}

\* C22 (concurrent dedup): threads whose synthesize calls on the same
\* unordered pair have returned, however their lookups and stores were
\* interleaved, were returned the same distinction, the one with the pair's
\* canonical id; one more call on the pair would find the dict and the
\* relationship set as it leaves them; and once no call is in flight the
\* relationship set is the one sequential calls produce for the dict.
C22_ConcurrentDedup ==
    /\ \A t \in Returned : \A u \in Returned :
           {threads[t].a.id, threads[t].b.id}
                = {threads[u].a.id, threads[u].b.id}
             => /\ threads[t].ret = threads[u].ret
                /\ threads[t].ret.id = PairId(threads[t].a.id, threads[t].b.id)
    /\ \A t \in Returned :
           LET r == synthesize(Engine, threads[t].a, threads[t].b)
           IN  /\ r.ret = threads[t].ret
               /\ StateOf(r) = Engine
    /\ Quiescent =>
           /\ relationships = SequentialRelationships(DOMAIN all_distinctions)
           /\ \A t \in Creators :
                  Cardinality(DOMAIN all_distinctions) = 3 =>
                      Engine = StateOf(synthesize(engine_init, threads[t].a,
                                                  threads[t].b))

\* Two threads called synthesize on one pair, one with the operands the
\* other way round; neither found the id in the dict, both stored it, both
\* have returned.
C22_Witness ==
    /\ Quiescent
    /\ \E t \in Creators : \E u \in Creators :
           /\ t # u
           /\ threads[t].a = threads[u].b
           /\ threads[t].b = threads[u].a
           /\ threads[t].a # threads[t].b

----------------------------------------------------------------------------
(* C23 *)

\* C23 (connectivity): in every state reached by synthesize calls on
\* registered operands, the graph of the registered distinctions and the
\* stored relationships is one connected component: every node is reached
\* from "0".
C23_Connectivity ==
    /\ Graph.nodes = DOMAIN all_distinctions
    /\ node_connected_component(Graph, d0.id) = Graph.nodes

\* The graph has grown to five nodes, one of them two hops from "0".
C23_Witness ==
    /\ Cardinality(Graph.nodes) >= 5
    /\ \E n \in Graph.nodes : shortest_path_length(Graph, d0.id, n) = 2

----------------------------------------------------------------------------
(* C24 *)

\* C24 (distances never grow): a synthesize call on registered operands
\* leaves every two distinctions that were registered before it joined by
\* a path, and their shortest-path distance after the call is at most
\* their distance before it.  (Holding for every call, it holds for every
\* sequence of calls.)
C24_DistancesNeverGrow ==
    op = "synthesize" =>
        \A x \in PreGraph.nodes : \A y \in PreGraph.nodes :
            has_path(PreGraph, x, y) =>
                /\ has_path(Graph, x, y)
                /\ shortest_path_length(Graph, x, y)
                      <= shortest_path_length(PreGraph, x, y)

\* A call has created a distinction in a graph where two registered
\* distinctions were two hops apart, and they still are.
C24_Witness ==
    /\ RegisteredCall
    /\ Created
    /\ \E x \in PreGraph.nodes : \E y \in PreGraph.nodes :
           /\ shortest_path_length(PreGraph, x, y) = 2
           /\ shortest_path_length(Graph, x, y) = 2

----------------------------------------------------------------------------
(* C25 *)

----------------------------------------------------------------------------
(* C26 *)

\* C26 (counting invariant): in every state reached by synthesize calls on
\* registered operands, the number of stored relationships is twice the
\* number of registered distinctions, less three.
C26_Counting ==
    Cardinality(relationships) = 2 * Cardinality(DOMAIN all_distinctions) - 3

\* Three distinctions have been synthesized: five registered, seven
\* relationships.
C26_Witness ==
    /\ Cardinality(DOMAIN all_distinctions) = 5
    /\ Cardinality(relationships) = 7

----------------------------------------------------------------------------
(* C27 *)

\* C27 (provenance and ordering): in every reachable state every
\* registered distinction other than d0 and d1 is related to two registered
\* distinctions with different ids whose canonical pair id is its id; and
\* when a call registers a distinction, its two operands were in the dict
\* before the call and the new distinction was not.
C27_Provenance ==
    /\ \A n \in DOMAIN all_distinctions \ {d0.id, d1.id} :
           \E x \in DOMAIN all_distinctions : \E y \in DOMAIN all_distinctions :
               /\ x # y
               /\ n = PairId(x, y)
               /\ Oriented(n, x) \in relationships
               /\ Oriented(n, y) \in relationships
    /\ op = "synthesize" =>
           \A n \in DOMAIN all_distinctions \ DOMAIN pre.all_distinctions :
               /\ n = PairId(arg_a.id, arg_b.id)
               /\ arg_a.id # arg_b.id
               /\ arg_a.id \in DOMAIN pre.all_distinctions
               /\ arg_b.id \in DOMAIN pre.all_distinctions
               /\ n \notin {arg_a.id, arg_b.id}

\* A distinction has been registered whose two operands were themselves
\* synthesized, and registered before it.
C27_Witness ==
    /\ op = "synthesize"
    /\ ret.id \notin DOMAIN pre.all_distinctions
    /\ ret.id \in DOMAIN all_distinctions
    /\ {arg_a.id, arg_b.id} \cap {d0.id, d1.id} = {}
    /\ {arg_a.id, arg_b.id} \subseteq DOMAIN pre.all_distinctions

----------------------------------------------------------------------------
(* C28 *)

\* The ids that occur in a stored relationship.
Endpoints == {r[1] : r \in relationships} \cup {r[2] : r \in relationships}

\* C28 (insertion order inside synthesize): in every state of a run of
\* synthesize calls on registered operands from several threads, the states
\* inside a call included, both endpoints of every stored relationship are
\* keys of the dict; a call that is about to add a relationship of its new
\* distinction has that distinction in the dict already.
C28_InsertionOrder ==
    /\ EndpointsRegistered
    /\ \A t \in Threads :
           threads[t].pc \in {"rel_a", "rel_b"} =>
               /\ threads[t].new_id \in DOMAIN all_distinctions
               /\ threads[t].a.id \in DOMAIN all_distinctions
               /\ threads[t].b.id \in DOMAIN all_distinctions

\* A call is between its store and its first _add_relationship: the new
\* distinction is in the dict and no relationship mentions it.
C28_Witness ==
    \E t \in Threads :
        /\ threads[t].pc = "rel_a"
        /\ threads[t].new_id \in DOMAIN all_distinctions
        /\ threads[t].new_id \notin Endpoints

----------------------------------------------------------------------------
(* C29 *)

\* C29 (the returned distinction is registered): after any synthesize call
\* on operands registered in the engine, with equal or with different ids,
\* the id of the returned distinction is a key of the dict and the
\* distinction stored under that key is the returned one.
C29_ReturnedIsRegistered ==
    (op = "synthesize" /\ arg_a \in PreRegistered /\ arg_b \in PreRegistered)
    => /\ ret.id \in DOMAIN all_distinctions
       /\ all_distinctions[ret.id] = ret

\* synthesize has returned a distinction it found in the dict, synthesized
\* earlier from the same two operands, themselves not both primordial.
C29_Witness ==
    /\ RegisteredCall
    /\ ~Created
    /\ ret.id = PairId(arg_a.id, arg_b.id)
    /\ {arg_a.id, arg_b.id} # {d0.id, d1.id}
    /\ all_distinctions[ret.id] = ret

----------------------------------------------------------------------------
(* C30 *)

\* C30 (no self-relationship): in every reachable state, whatever
\* distinctions were passed, every stored pair <<x, y>> has x < y, so none
\* has equal endpoints; a call on equal ids adds no relationship, and the id
\* of a distinction a call creates differs from both operand ids and from
\* the primordial ids.
C30_NoSelfRelationship ==
    /\ \A r \in relationships : r[1] # r[2] /\ StrLess(r[1], r[2])
    /\ (op = "synthesize" /\ arg_a.id = arg_b.id) =>
           relationships = pre.relationships
    /\ op = "synthesize" =>
           \A n \in DOMAIN all_distinctions \ DOMAIN pre.all_distinctions :
               n \notin {arg_a.id, arg_b.id, d0.id, d1.id}

\* A synthesize call on one distinction twice, not a primordial one, has
\* returned in an engine that has created distinctions.
C30_Witness ==
    /\ op = "synthesize"
    /\ arg_a.id = arg_b.id
    /\ arg_a.id \notin {d0.id, d1.id}
    /\ Cardinality(relationships) >= 3

====
